---- MODULE Spec2Model ----
(***************************************************************************)
(* A model of orangecanvas/utils/concurrent.py: ThreadPoolExecutor,        *)
(* FutureRunnable, the module-level submit and FutureWatcher, together     *)
(* with the concurrent.futures.Future they fulfil (concurrent.py:85 makes  *)
(* Future an alias of the standard library class; its operations are      *)
(* modelled with the semantics of CPython's concurrent/futures/_base.py).  *)
(*                                                                         *)
(* Threads: two client threads (the owner thread, which also runs the Qt   *)
(* event loop, and one other client thread) and the threads of the         *)
(* QThreadPool.  Every thread has a program counter; a step of the model   *)
(* is one atomic step of one thread.                                       *)
(***************************************************************************)
EXTENDS Integers, Sequences, FiniteSets, TLC

\* ---------------------------------------------------------------- bounds

\* Number of futures created over a run (submit calls that are accepted).
MaxFutures == 2
\* QThreadPool.maxThreadCount of the pool the tasks run in.
MaxWorkers == 1
\* Number of FutureWatcher objects.
NumWatchers == 1
\* The same where the order of their events is looked at.
NumOrdered == 2
\* Meta-calls the callable of method_invoke may have queued or executed.
MaxCalls == 2
\* Scheme nodes, and the registrations the widget manager may make of them.
NumNodes == 2
MaxRegs == 3
\* Calls of create_widget_instance that may raise, per registration.
MaxFailed == 1

\* ---------------------------------------------------------------- names

\* Threads are named <<kind, number>>.
Owner == <<"owner", 0>>
Client == <<"client", 0>>
Clients == {Owner, Client}
Workers == {<<"worker", i>> : i \in 1..MaxWorkers}
Threads == Clients \cup Workers
Watchers == 1..NumWatchers

None == "None"

\* The holder of a lock nobody holds.
Unlocked == <<"none", 0>>

\* The callables the clients submit, and what calling one does
\* (test_concurrent.py: pow / lambda: 1 / 0 / lambda: None).
Callables == {"square", "divide"}

Call(func) ==
    IF func = "divide"
    THEN [raises |-> TRUE,  value |-> "ZeroDivisionError"]
    ELSE [raises |-> FALSE, value |-> "49"]

\* concurrent.futures._base future states
PENDING == "PENDING"
RUNNING == "RUNNING"
CANCELLED == "CANCELLED"
CANCELLED_AND_NOTIFIED == "CANCELLED_AND_NOTIFIED"
FINISHED == "FINISHED"

VARIABLES
    futures,      \* sequence of Future objects, in order of creation
    submitted,    \* per future: the callable it was created for and by whom
    track,        \* ThreadPoolExecutor.__track
    shutdownFlag, \* ThreadPoolExecutor.__shutdown
    pending,      \* ThreadPoolExecutor.__pending_futures
    lock,         \* holder of ThreadPoolExecutor.__lock, or Unlocked
    poolQueue,    \* FutureRunnables handed to the QThreadPool, not yet run
    pc,           \* per thread: where it is
    cur,          \* per thread: the task or future it is working on
    idx,          \* per thread: position in _invoke_callbacks
    snap,         \* per client: `futures` of shutdown(wait=True)
    ret,          \* the last call a client finished: what it returned
    invoked,      \* per future: how often its callable was called
    escaped,      \* an exception left FutureRunnable.run
    logged,       \* FutureRunnable.run has called log.critical
    warned,       \* shutdown issued its UserWarning
    watched,      \* per watcher: FutureWatcher.__future (0: None)
    evQueue,      \* posted FutureDone events of the owner's loop (receivers)
    emitted,      \* per watcher: the signals emitted, with emitting thread
    assertFailed, \* an assert of FutureWatcher.__emitSignals failed
    posted,       \* the receivers of all FutureDone events, as posted
    dispatched,   \* the receivers of those the loop has delivered, in order
    called,       \* per future: the done-callbacks _invoke_callbacks has
                  \* called, in order, and whether they found it done
    wstate,       \* per watcher: alive, deleted (the C++ object is gone, the
                  \* Python wrapper is still referenced) or collected
    callable,     \* the callable method_invoke returned, if any
    target,       \* the QObject whose method it invokes: alive, deleted
                  \* or collected
    metaQueue,    \* the meta-calls posted to the target, not yet delivered
    slotCalls,    \* the calls of the target's slot: arguments and thread
    wm_delayed_init,       \* WidgetManager.__delayed_init
    wm_initstate_for_node, \* WidgetManager.__initstate_for_node
    wm_widget_for_node,    \* WidgetManager.__widget_for_node (0: no entry)
    wm_node_for_widget,    \* WidgetManager.__node_for_widget, by widget
    wm_widgets,            \* WidgetManager.__widgets
    wm_futures,            \* the futures of add_widget_for_node, in order
    wm_regs,      \* per such future: the node, the widget built for it (0:
                  \* none) and the calls of create_widget_instance that raised
    wm_timers,    \* the QTimer.singleShot of add_widget_for_node not yet due
    wm_events,    \* the WidgetInitEvents posted to the manager
    wm_signals,   \* widget_for_node_added / _removed as emitted, in order
    wm_observed,  \* what the receivers of these signals, and remove_widget,
                  \* found in the manager when they were called, in order
    wm_deleted,   \* the widgets remove_widget has called deleteLater on
    wm_scheme,    \* WidgetManager.__scheme (NoScheme: None)
    scheme_nodes  \* scheme.nodes of the one scheme, in order

execVars == <<track, shutdownFlag, pending, lock>>
watchVars == <<watched, evQueue, emitted, assertFailed, wstate>>
runVars == <<invoked, escaped, logged>>
invokeVars == <<callable, target, metaQueue, slotCalls>>

managerVars == <<wm_delayed_init, wm_initstate_for_node, wm_widget_for_node,
                 wm_node_for_widget, wm_widgets, wm_futures, wm_regs,
                 wm_timers, wm_events, wm_signals, wm_observed, wm_deleted,
                 wm_scheme, scheme_nodes>>

\* The scheme and the manager's reference to it.
schemeVars == <<wm_scheme, scheme_nodes>>

\* What the executor, the pool and the watchers leave alone.
otherVars == <<invokeVars, managerVars>>

\* The same, with the record of the done-callbacks called.
restVars == <<otherVars, called, posted, dispatched>>

vars == <<futures, submitted, track, shutdownFlag, pending, lock, poolQueue,
          pc, cur, idx, snap, ret, invoked, escaped, logged, warned,
          watched, evQueue, emitted, assertFailed, wstate, called, posted,
          dispatched, otherVars>>

FutureIds == 1..Len(futures)

\* ------------------------------------------- concurrent.futures.Future

NewFuture ==
    [state |-> PENDING, result |-> None, exception |-> None,
     callbacks |-> <<>>]

done(fut) == fut.state \in {CANCELLED, CANCELLED_AND_NOTIFIED, FINISHED}

cancelled(fut) == fut.state \in {CANCELLED, CANCELLED_AND_NOTIFIED}

\* A cancel that also cancels a future that is already running.
cancel_preemptive(fut) ==
    IF fut.state = FINISHED
    THEN [fut |-> fut, ret |-> FALSE, fire |-> FALSE]
    ELSE IF fut.state \in {CANCELLED, CANCELLED_AND_NOTIFIED}
    THEN [fut |-> fut, ret |-> TRUE, fire |-> FALSE]
    ELSE [fut |-> [fut EXCEPT !.state = CANCELLED],
          ret |-> TRUE, fire |-> TRUE]

\* A cancel that also cancels a future that is finished.
cancel_finished(fut) ==
    IF fut.state = RUNNING
    THEN [fut |-> fut, ret |-> FALSE, fire |-> FALSE]
    ELSE IF fut.state \in {CANCELLED, CANCELLED_AND_NOTIFIED}
    THEN [fut |-> fut, ret |-> TRUE, fire |-> FALSE]
    ELSE [fut |-> [fut EXCEPT !.state = CANCELLED],
          ret |-> TRUE, fire |-> TRUE]

\* Future.cancel: the new future, the value returned, and whether
\* _invoke_callbacks runs.
cancel(fut) ==
    IF fut.state \in {RUNNING, FINISHED}
    THEN [fut |-> fut, ret |-> FALSE, fire |-> FALSE]
    ELSE IF fut.state \in {CANCELLED, CANCELLED_AND_NOTIFIED}
    THEN [fut |-> fut, ret |-> TRUE, fire |-> FALSE]
    ELSE [fut |-> [fut EXCEPT !.state = CANCELLED],
          ret |-> TRUE, fire |-> TRUE]

\* Future.set_running_or_notify_cancel: the value returned, or raised when
\* it raises RuntimeError('Future in unexpected state').
set_running_or_notify_cancel(fut) ==
    IF fut.state = CANCELLED
    THEN [fut |-> [fut EXCEPT !.state = CANCELLED_AND_NOTIFIED],
          ret |-> FALSE, raised |-> FALSE]
    ELSE IF fut.state = PENDING
    THEN [fut |-> [fut EXCEPT !.state = RUNNING],
          ret |-> TRUE, raised |-> FALSE]
    ELSE [fut |-> fut, ret |-> FALSE, raised |-> TRUE]

\* Future.set_result: raises InvalidStateError on a terminal future.
set_result(fut, value) ==
    IF done(fut)
    THEN [fut |-> fut, raised |-> TRUE]
    ELSE [fut |-> [fut EXCEPT !.result = value, !.state = FINISHED],
          raised |-> FALSE]

\* Future.set_exception
set_exception(fut, exc) ==
    IF done(fut)
    THEN [fut |-> fut, raised |-> TRUE]
    ELSE [fut |-> [fut EXCEPT !.exception = exc, !.state = FINISHED],
          raised |-> FALSE]

\* An add_done_callback that registers the callback twice.
add_done_callback_twice(fut, cb) ==
    IF ~done(fut)
    THEN [fut |-> [fut EXCEPT !.callbacks = Append(Append(@, cb), cb)],
          now |-> FALSE]
    ELSE [fut |-> fut, now |-> TRUE]

\* Future.add_done_callback: appended while not terminal, otherwise the
\* callback is called at once by the caller (now).
add_done_callback(fut, cb) ==
    IF ~done(fut)
    THEN [fut |-> [fut EXCEPT !.callbacks = Append(@, cb)], now |-> FALSE]
    ELSE [fut |-> fut, now |-> TRUE]

\* Future.result(timeout=0) / Future.result() on a terminal future.
result(fut) ==
    IF cancelled(fut) THEN [raises |-> TRUE, value |-> "CancelledError"]
    ELSE IF fut.state = FINISHED
    THEN IF fut.exception # None
         THEN [raises |-> TRUE, value |-> fut.exception]
         ELSE [raises |-> FALSE, value |-> fut.result]
    ELSE [raises |-> TRUE, value |-> "TimeoutError"]

\* Future.exception(timeout=0) / Future.exception() on a terminal future.
exception(fut) ==
    IF cancelled(fut) THEN [raises |-> TRUE, value |-> "CancelledError"]
    ELSE IF fut.state = FINISHED
    THEN [raises |-> FALSE, value |-> fut.exception]
    ELSE [raises |-> TRUE, value |-> "TimeoutError"]

\* --------------------------------------------------------- FutureWatcher

\* The done-callbacks a future can hold: ThreadPoolExecutor.submit's
\* notify_done and FutureWatcher.setFuture's on_done (one per watcher).
NotifyDone == [kind |-> "notify_done", watcher |-> 0]
OnDone(w) == [kind |-> "on_done", watcher |-> w]

\* A call of done-callback cb by _invoke_callbacks of future fut.
Called(cb, fut) == [cb |-> cb, done |-> done(fut)]

Emit(signal, f, arg, thr) ==
    [signal |-> signal, future |-> f, arg |-> arg, thread |-> thr]

\* An __emitSignals that emits done before finished.
emitSignals_done_first(f, fut, thr) ==
    IF cancelled(fut)
    THEN <<Emit("cancelled", f, None, thr), Emit("done", f, None, thr)>>
    ELSE <<Emit("done", f, None, thr), Emit("finished", f, None, thr)>> \o
         (IF exception(fut).value # None
          THEN <<Emit("exceptionReady", f, exception(fut).value, thr)>>
          ELSE <<Emit("resultReady", f, result(fut).value, thr)>>)

\* FutureWatcher.__emitSignals, past its two asserts: the signals emitted,
\* in order, by thread thr for future f.
emitSignals(f, fut, thr) ==
    IF cancelled(fut)
    THEN <<Emit("cancelled", f, None, thr), Emit("done", f, None, thr)>>
    ELSE <<Emit("finished", f, None, thr), Emit("done", f, None, thr)>> \o
         (IF exception(fut).value # None
          THEN <<Emit("exceptionReady", f, exception(fut).value, thr)>>
          ELSE <<Emit("resultReady", f, result(fut).value, thr)>>)

\* An on_done that emits the signals itself, in the thread it is called in.
on_done_emits(w, f, thr, queue, em) ==
    [queue |-> queue,
     emitted |-> [em EXCEPT ![w] = @ \o emitSignals(f, futures[f], thr)]]

\* An on_done that posts the FutureDone event twice.
on_done_twice(w, f, thr, queue, em) ==
    [queue |-> Append(Append(queue, w), w), emitted |-> em]

\* An on_done that posts the event whatever has become of the watcher.
on_done_unguarded(w, f, thr, queue, em) ==
    [queue |-> Append(queue, w), emitted |-> em]

\* on_done, called in thread thr with future f: posts a FutureDone event
\* to the watcher. It returns at once when the weak reference to the
\* watcher is dead, and swallows the RuntimeError of postEvent when the
\* C++ side of the watcher is deleted.
on_done(w, f, thr, queue, em) ==
    IF wstate[w] = "alive"
    THEN [queue |-> Append(queue, w), emitted |-> em]
    ELSE [queue |-> queue, emitted |-> em]

\* A setFuture that emits at once when the future is already terminal.
setFuture_register_sync(w, f, thr, queue, em) ==
    LET a == add_done_callback(futures[f], OnDone(w)) IN
    IF a.now
    THEN [fut |-> a.fut, queue |-> queue,
          emitted |-> [em EXCEPT ![w] = @ \o emitSignals(f, a.fut, thr)]]
    ELSE [fut |-> a.fut, queue |-> queue, emitted |-> em]

\* A setFuture that calls on_done itself, whatever the state of the future.
setFuture_register_eager(w, f, thr, queue, em) ==
    LET a == add_done_callback(futures[f], OnDone(w))
        r == on_done(w, f, thr, queue, em)
    IN  [fut |-> a.fut, queue |-> r.queue, emitted |-> r.emitted]

\* FutureWatcher.setFuture, line 373: future.add_done_callback(on_done),
\* which calls on_done at once when the future is already terminal.
setFuture_register(w, f, thr, queue, em) ==
    LET a == add_done_callback(futures[f], OnDone(w))
        r == IF a.now THEN on_done(w, f, thr, queue, em)
             ELSE [queue |-> queue, emitted |-> em]
    IN  [fut |-> a.fut, queue |-> r.queue, emitted |-> r.emitted]

\* FutureWatcher.__future before setFuture: None.
NoFuture == [state |-> None, result |-> None, exception |-> None,
             callbacks |-> <<>>]

\* A result() that lets the TimeoutError of Future.result through.
watcher_result_timeout(fut) ==
    IF fut = NoFuture THEN [raises |-> TRUE, value |-> "AttributeError"]
    ELSE result(fut)

\* FutureWatcher.result, lines 392-395: Future.result(timeout=0), with
\* TimeoutError turned into RuntimeError("Future is not yet done").
watcher_result(fut) ==
    IF fut = NoFuture THEN [raises |-> TRUE, value |-> "AttributeError"]
    ELSE LET r == result(fut) IN
         IF r.raises /\ r.value = "TimeoutError"
         THEN [raises |-> TRUE, value |-> "RuntimeError"]
         ELSE r

\* FutureWatcher.exception, lines 407-410.
watcher_exception(fut) ==
    IF fut = NoFuture THEN [raises |-> TRUE, value |-> "AttributeError"]
    ELSE LET r == exception(fut) IN
         IF r.raises /\ r.value = "TimeoutError"
         THEN [raises |-> TRUE, value |-> "RuntimeError"]
         ELSE r

\* --------------------------------------------------------- method_invoke

\* Qt.ConnectionType
ConnTypes == {"Queued", "BlockingQueued", "Direct", "Auto"}

\* The target's slot, StateSetter.set_state(value), declared Slot(object),
\* and the sig the test passes: (object,).
SlotArity == 1
Sig == <<"object">>

\* The positional arguments a caller passes to the callable.
InvokeArgs == {<<>>, <<"x">>, <<"y">>, <<"x", "y">>}

NoCallable == [conntype |-> None, sig |-> <<>>, strong |-> FALSE]

\* A method_invoke whose closure holds the target itself.
method_invoke_strong(sig, conntype) ==
    [conntype |-> conntype, sig |-> sig, strong |-> TRUE]

\* method_invoke, lines 63-80: the callable holds the method's name, the
\* sig, the connection type and a weak reference to the target.
method_invoke(sig, conntype) ==
    [conntype |-> conntype, sig |-> sig, strong |-> FALSE]

Min(a, b) == IF a < b THEN a ELSE b

\* call, line 77: [Q_ARG(atype, arg) for atype, arg in zip(sig, args)].
Q_ARGS(sig, args) ==
    [i \in 1..Min(Len(sig), Len(args)) |-> <<sig[i], args[i]>>]

\* The values the slot receives from a list of Q_ARG.
Values(qargs) == [i \in 1..Len(qargs) |-> qargs[i][2]]

\* An invokeMethod that calls the method at once, whatever the type.
ConnectionType_direct(conntype, t) == "Direct"

\* QMetaObject.invokeMethod, line 78: how a call made in thread t is
\* carried out (Auto: direct in the target's thread, queued elsewhere).
ConnectionType(conntype, t) ==
    IF conntype = "Auto"
    THEN IF t = Owner THEN "Direct" ELSE "Queued"
    ELSE conntype

MetaCall(qargs, t, blocking) ==
    [args |-> qargs, sender |-> t, blocking |-> blocking]

SlotCall(values, t) == [args |-> values, thread |-> t]

\* --------------------------------------------------------- WidgetManager

Nodes == 1..NumNodes

\* Widget initialization states: no entry in __initstate_for_node,
\* Delayed(node, future), Materialized(node, widget).
NoState == [kind |-> "none", node |-> 0, future |-> 0, widget |-> 0]
Delayed(node, future) ==
    [kind |-> "Delayed", node |-> node, future |-> future, widget |-> 0]
Materialized(node, widget) ==
    [kind |-> "Materialized", node |-> node, future |-> 0, widget |-> widget]

\* The scheme a manager is installed on: None, or the one scheme there is.
NoScheme == 0
TheScheme == 1

\* WidgetInitEvent(initstate)
WidgetInitEvent(state) == [node |-> state.node, future |-> state.future]

\* A signal of the manager as emitted.
Signal(name, node, widget) ==
    [signal |-> name, node |-> node, widget |-> widget]

\* What the code called with (node, widget) finds when it looks the node
\* and the widget up: the node's state, and whether deleteLater has been
\* called on the widget.
Observed(name, node, widget, init, deleted) ==
    [call |-> name, node |-> node, widget |-> widget,
     state |-> init[node].kind, deleted |-> widget \in deleted]

\* The widget as the result of a future.
WidgetValue(widget) == ToString(widget)

\* create_widget_instance(node), which the application supplies: it returns
\* a new widget, or raises (ok is FALSE).
create_widget_instance(node, ok) ==
    [raises |-> ~ok, widget |-> Len(wm_node_for_widget) + 1]

\* A customEvent that takes every event for one to act on.
customEvent_skips_never(fut) == FALSE

\* A customEvent that only takes a cancelled future for a reason to skip.
customEvent_skips_cancelled(fut) == cancelled(fut)

\* WidgetManager.customEvent, line 227: the event is a no-op when its
\* future is cancelled or done.
customEvent_skips(fut) == cancelled(fut) \/ done(fut)

\* A remove_widget_for_node that leaves the future of a Delayed state as
\* it is.
remove_delayed_future_kept(fut) == fut

\* remove_widget_for_node, line 194: state.future.cancel().
remove_delayed_future(fut) == cancel(fut).fut

\* ------------------------------------------------------- FutureRunnable

NoTask == [future |-> 0, func |-> None]
Task(f, func) == [future |-> f, func |-> func]

\* A run that does not look at what set_running_or_notify_cancel returned.
run_start_ignoring_cancel(fut) ==
    LET r == set_running_or_notify_cancel(fut) IN
    [fut |-> r.fut, proceed |-> ~r.raised, logged |-> r.raised]

\* FutureRunnable.run, lines 234-237: whether the callable is to be called.
run_start(fut) ==
    LET r == set_running_or_notify_cancel(fut) IN
    [fut |-> r.fut, proceed |-> (~r.raised /\ r.ret), logged |-> r.raised]

\* A run without the inner try: what the callable raises leaves run.
run_call_uncaught(fut, func) ==
    LET out == Call(func)
        r == set_result(fut, out.value)
    IN  IF out.raises
        THEN [fut |-> fut, fire |-> FALSE, logged |-> FALSE,
              escaped |-> TRUE]
        ELSE [fut |-> r.fut, fire |-> ~r.raised, logged |-> r.raised,
              escaped |-> FALSE]

\* A run that stores what the callable raised as its result.
run_call_result_only(fut, func) ==
    LET r == set_result(fut, Call(func).value) IN
    [fut |-> r.fut, fire |-> ~r.raised, logged |-> r.raised,
     escaped |-> FALSE]

\* FutureRunnable.run, lines 238-248: call the callable and store what it did.
run_call(fut, func) ==
    LET out == Call(func)
        r == IF out.raises THEN set_exception(fut, out.value)
             ELSE set_result(fut, out.value)
    IN  [fut |-> r.fut, fire |-> ~r.raised, logged |-> r.raised,
         escaped |-> FALSE]

\* ---------------------------------------------------------------- Init

Idle == "idle"

\* The outcome of client t's call op: the value returned ("True", "False",
\* None) or raised ("RuntimeError"); for cancel and setFuture, pre is the
\* state of the future at the call.
Ret(t, op, value, pre) ==
    [thread |-> t, op |-> op, value |-> value, pre |-> pre]
NoRet == Ret(Owner, "none", None, None)

\* Everything but the manager's policy, as the constructors leave it, with
\* the watchers ws.
InitWith(ws) ==
    /\ futures = <<>>
    /\ submitted = <<>>
    /\ track \in BOOLEAN
    /\ shutdownFlag = FALSE
    /\ pending = {}
    /\ lock = Unlocked
    /\ poolQueue = <<>>
    /\ pc = [t \in Threads |-> Idle]
    /\ cur = [t \in Threads |-> NoTask]
    /\ idx = [t \in Threads |-> 0]
    /\ snap = [t \in Clients |-> {}]
    /\ ret = NoRet
    /\ invoked = <<>>
    /\ escaped = FALSE
    /\ logged = FALSE
    /\ warned = FALSE
    /\ watched = [w \in ws |-> 0]
    /\ evQueue = <<>>
    /\ emitted = [w \in ws |-> <<>>]
    /\ assertFailed = FALSE
    /\ wstate = [w \in ws |-> "alive"]
    /\ called = <<>>
    /\ posted = <<>>
    /\ dispatched = <<>>
    /\ callable = NoCallable
    /\ target = "alive"
    /\ metaQueue = <<>>
    /\ slotCalls = <<>>
    /\ wm_initstate_for_node = [n \in Nodes |-> NoState]
    /\ wm_widget_for_node = [n \in Nodes |-> 0]
    /\ wm_node_for_widget = <<>>
    /\ wm_widgets = <<>>
    /\ wm_futures = <<>>
    /\ wm_regs = <<>>
    /\ wm_timers = <<>>
    /\ wm_events = <<>>
    /\ wm_signals = <<>>
    /\ wm_observed = <<>>
    /\ wm_deleted = {}
    /\ wm_scheme = NoScheme
    /\ scheme_nodes = <<>>

InitButPolicy == InitWith(Watchers)

\* WidgetManager.__init__ sets __delayed_init to True.
Init ==
    /\ InitButPolicy
    /\ wm_delayed_init = TRUE

\* The same with NumOrdered watchers.
InitOrder ==
    /\ InitWith(1..NumOrdered)
    /\ wm_delayed_init = TRUE

\* A manager whose __delayed_init is either True or False.
InitPolicy ==
    /\ InitButPolicy
    /\ wm_delayed_init \in BOOLEAN

\* --------------------------------------------- Future._invoke_callbacks

\* Thread t starts _invoke_callbacks on future f (or returns at once when
\* the future has no callbacks); value is what a client's call returns.
StartCallbacks(t, f, value) ==
    IF futures'[f].callbacks # <<>>
    THEN /\ pc' = [pc EXCEPT ![t] = "callbacks"]
         /\ cur' = [cur EXCEPT ![t] = Task(f, None)]
         /\ idx' = [idx EXCEPT ![t] = 1]
         /\ ret' = ret
    ELSE /\ pc' = [pc EXCEPT ![t] = Idle]
         /\ cur' = [cur EXCEPT ![t] = NoTask]
         /\ idx' = idx
         /\ ret' = IF t \in Clients
                   THEN Ret(t, "cancel", value, PENDING)
                   ELSE ret

\* An _invoke_callbacks that goes through the callbacks last to first.
callback_at_reversed(cbs, i) == cbs[Len(cbs) + 1 - i]

\* _invoke_callbacks: for callback in self._done_callbacks, the i-th.
callback_at(cbs, i) == cbs[i]

\* One iteration of the loop of _invoke_callbacks in thread t.
invoke_callbacks(t) ==
    /\ pc[t] = "callbacks"
    /\ LET f == cur[t].future
           cb == callback_at(futures[f].callbacks, idx[t])
           last == idx[t] = Len(futures[f].callbacks)
       IN
       /\ IF cb.kind = "notify_done"
          THEN \* notify_done: with self.__lock: pending.remove(future)
               /\ lock = Unlocked
               /\ pending' = pending \ {f}
               /\ UNCHANGED <<evQueue, emitted>>
          ELSE LET r == on_done(cb.watcher, f, t, evQueue, emitted) IN
               /\ evQueue' = r.queue
               /\ emitted' = r.emitted
               /\ pending' = pending
       /\ called' = [called EXCEPT ![f] =
                        Append(@, Called(cb, futures[f]))]
       /\ posted' = posted \o SubSeq(evQueue', Len(evQueue) + 1,
                                      Len(evQueue'))
       /\ IF last
          THEN /\ pc' = [pc EXCEPT ![t] = Idle]
               /\ cur' = [cur EXCEPT ![t] = NoTask]
               /\ idx' = [idx EXCEPT ![t] = 0]
               /\ ret' = IF t \in Clients
                         THEN Ret(t, "cancel", "True", PENDING)
                         ELSE ret
          ELSE /\ idx' = [idx EXCEPT ![t] = @ + 1]
               /\ UNCHANGED <<pc, cur, ret>>
    /\ UNCHANGED <<futures, submitted, track, shutdownFlag, lock, poolQueue,
                   snap, runVars, warned, watched, assertFailed, wstate,
                   dispatched>>
    /\ UNCHANGED otherVars

\* --------------------------------------------------- ThreadPoolExecutor

\* A submit that does not look at the shutdown flag.
submit_rejects_never(flag) == FALSE

\* ThreadPoolExecutor.submit, lines 154-156: raise RuntimeError.
submit_rejects(flag) == flag

\* A pool that takes every task handed to it twice.
start_twice(queue, task) == Append(Append(queue, task), task)

\* ThreadPoolExecutor.submit, line 169, and the module's submit, line 276:
\* QThreadPool.start(runnable) takes the task once.
start(queue, task) == Append(queue, task)

\* ThreadPoolExecutor.submit, lines 153-169: under the lock, reject after
\* shutdown, else create the future and the task, track the future and
\* hand the task to the pool.
submit_enter(t, func) ==
    /\ pc[t] = Idle
    /\ lock = Unlocked
    /\ submit_rejects(shutdownFlag) \/ Len(futures) < MaxFutures
    /\ IF submit_rejects(shutdownFlag)
       THEN /\ ret' = Ret(t, "submit", "RuntimeError", None)
            /\ UNCHANGED <<futures, submitted, invoked, called, pending,
                           lock, poolQueue, pc, cur>>
       ELSE LET f == Len(futures) + 1
                fut == IF track
                       THEN add_done_callback(NewFuture, NotifyDone).fut
                       ELSE NewFuture
            IN
            /\ futures' = Append(futures, fut)
            /\ submitted' = Append(submitted,
                                   [func |-> func, via |-> "executor"])
            /\ invoked' = Append(invoked, 0)
            /\ called' = Append(called, <<>>)
            /\ pending' = IF track THEN pending \cup {f} ELSE pending
            /\ lock' = t
            /\ poolQueue' = start(poolQueue, Task(f, func))
            /\ pc' = [pc EXCEPT ![t] = "submit_return"]
            /\ cur' = [cur EXCEPT ![t] = Task(f, func)]
            /\ ret' = ret
    /\ UNCHANGED <<track, shutdownFlag, idx, snap, escaped, logged, warned,
                   watchVars, posted, dispatched>>
    /\ UNCHANGED otherVars

\* ThreadPoolExecutor.submit, line 170: return future, releasing the lock.
submit_return(t) ==
    /\ pc[t] = "submit_return"
    /\ lock' = Unlocked
    /\ ret' = Ret(t, "submit", None, None)
    /\ pc' = [pc EXCEPT ![t] = Idle]
    /\ cur' = [cur EXCEPT ![t] = NoTask]
    /\ UNCHANGED <<futures, submitted, track, shutdownFlag, pending,
                   poolQueue, idx, snap, runVars, warned,
                   watchVars>>
    /\ UNCHANGED restVars

\* The module-level submit: a future and a task in the global pool.
submit(t, func) ==
    /\ pc[t] = Idle
    /\ Len(futures) < MaxFutures
    /\ LET f == Len(futures) + 1 IN
       /\ futures' = Append(futures, NewFuture)
       /\ submitted' = Append(submitted, [func |-> func, via |-> "module"])
       /\ invoked' = Append(invoked, 0)
       /\ called' = Append(called, <<>>)
       /\ poolQueue' = start(poolQueue, Task(f, func))
       /\ ret' = Ret(t, "module_submit", None, None)
    /\ UNCHANGED <<execVars, pc, cur, idx, snap, escaped, logged, warned,
                   watchVars, posted, dispatched>>
    /\ UNCHANGED otherVars

\* A wait that returns when the first of the futures is done.
wait_done_any(fs) ==
    \/ fs = {}
    \/ \E f \in fs : futures[f].state \in {CANCELLED_AND_NOTIFIED, FINISHED}

\* concurrent.futures.wait(futures), ALL_COMPLETED: what it waits for.
wait_done(fs) ==
    \A f \in fs : futures[f].state \in {CANCELLED_AND_NOTIFIED, FINISHED}

\* A shutdown that never copies the pending set.
shutdown_futures_none(wait, pend) == {}

\* ThreadPoolExecutor.shutdown, lines 185-189: the futures to wait on.
shutdown_futures(wait, pend) == IF wait THEN pend ELSE {}

\* A shutdown that never warns.
shutdown_warns_never(wait, trk) == FALSE

\* ThreadPoolExecutor.shutdown, line 190: whether the warning is issued.
shutdown_warns(wait, trk) == wait /\ ~trk

\* A shutdown that keeps the lock when it goes on to wait.
shutdown_lock_kept(t, wait) == IF wait THEN t ELSE Unlocked

\* ThreadPoolExecutor.shutdown, lines 186-189: the holder of the lock when
\* the with block is left.
shutdown_lock(t, wait) == Unlocked

\* A shutdown that drops the tasks the pool has not started.
shutdown_tasks_dropped(queue) == <<>>

\* ThreadPoolExecutor.shutdown, lines 185-197, has no call on the pool or
\* on a future: the tasks handed to the pool stay with it.
shutdown_tasks(queue) == queue

\* ThreadPoolExecutor.shutdown, lines 185-195: the locked part and the
\* warning.
shutdown(t, wait) ==
    /\ pc[t] = Idle
    /\ lock = Unlocked
    /\ lock' = shutdown_lock(t, wait)
    /\ shutdownFlag' = TRUE
    /\ snap' = [snap EXCEPT ![t] = shutdown_futures(wait, pending)]
    /\ warned' = (warned \/ shutdown_warns(wait, track))
    /\ IF wait
       THEN /\ pc' = [pc EXCEPT ![t] = "shutdown_wait"]
            /\ ret' = ret
       ELSE /\ pc' = pc
            /\ ret' = Ret(t, "shutdown", None, None)
    /\ poolQueue' = shutdown_tasks(poolQueue)
    /\ UNCHANGED <<futures, submitted, track, pending, cur,
                   idx, runVars, watchVars>>
    /\ UNCHANGED restVars

\* ThreadPoolExecutor.shutdown, lines 196-197: concurrent.futures.wait.
shutdown_wait(t) ==
    /\ pc[t] = "shutdown_wait"
    /\ wait_done(snap[t])
    /\ pc' = [pc EXCEPT ![t] = Idle]
    /\ snap' = [snap EXCEPT ![t] = {}]
    /\ ret' = Ret(t, "shutdown_wait", None, None)
    /\ UNCHANGED <<futures, submitted, execVars, poolQueue, cur, idx,
                   runVars, warned, watchVars>>
    /\ UNCHANGED restVars

\* A client calls Future.cancel on one of the futures.
cancel_call(t, f) ==
    /\ pc[t] = Idle
    /\ f \in FutureIds
    /\ LET r == cancel(futures[f]) IN
       /\ futures' = [futures EXCEPT ![f] = r.fut]
       /\ IF r.fire
          THEN StartCallbacks(t, f, "True")
          ELSE /\ ret' = Ret(t, "cancel", IF r.ret THEN "True" ELSE "False",
                               futures[f].state)
               /\ UNCHANGED <<pc, cur, idx>>
    /\ UNCHANGED <<submitted, execVars, poolQueue, snap, runVars, warned,
                   watchVars>>
    /\ UNCHANGED restVars

\* ------------------------------------------------- QThreadPool threads

\* A pool thread takes the next task: FutureRunnable.run, lines 234-237.
FutureRunnable_run(w) ==
    /\ pc[w] = Idle
    /\ poolQueue # <<>>
    /\ LET task == Head(poolQueue)
           r == run_start(futures[task.future])
       IN
       /\ poolQueue' = Tail(poolQueue)
       /\ futures' = [futures EXCEPT ![task.future] = r.fut]
       /\ logged' = (logged \/ r.logged)
       /\ IF r.proceed
          THEN /\ pc' = [pc EXCEPT ![w] = "run_call"]
               /\ cur' = [cur EXCEPT ![w] = task]
          ELSE UNCHANGED <<pc, cur>>
    /\ UNCHANGED <<submitted, execVars, idx, snap, ret, invoked, escaped,
                   warned, watchVars>>
    /\ UNCHANGED restVars

\* FutureRunnable.run, lines 238-248, then the done-callbacks.
FutureRunnable_call(w) ==
    /\ pc[w] = "run_call"
    /\ LET f == cur[w].future
           r == run_call(futures[f], cur[w].func)
       IN
       /\ futures' = [futures EXCEPT ![f] = r.fut]
       /\ invoked' = [invoked EXCEPT ![f] = @ + 1]
       /\ logged' = (logged \/ r.logged)
       /\ escaped' = (escaped \/ r.escaped)
       /\ IF r.fire
          THEN StartCallbacks(w, f, None)
          ELSE /\ pc' = [pc EXCEPT ![w] = Idle]
               /\ cur' = [cur EXCEPT ![w] = NoTask]
               /\ UNCHANGED <<idx, ret>>
    /\ UNCHANGED <<submitted, execVars, poolQueue, snap, warned,
                   watchVars>>
    /\ UNCHANGED restVars

\* -------------------------------------------- FutureWatcher operations

\* A setFuture that accepts a future when one is already set.
setFuture_rejects_never(current) == FALSE

\* FutureWatcher.setFuture, lines 352-353: raise RuntimeError when a future
\* is already set.
setFuture_rejects(current) == current # 0

\* FutureWatcher.setFuture called by client t (the watchers are QObjects
\* of the owner thread, so t is the owner); FutureWatcher(future) is the
\* same call on the new watcher.
setFuture(t, w, f) ==
    /\ pc[t] = Idle
    /\ f \in FutureIds
    /\ wstate[w] # "collected"
    /\ IF setFuture_rejects(watched[w])
       THEN /\ ret' = Ret(t, "setFuture", "RuntimeError", futures[f].state)
            /\ UNCHANGED <<futures, watched, evQueue, emitted>>
       ELSE LET r == setFuture_register(w, f, t, evQueue, emitted) IN
            /\ watched' = [watched EXCEPT ![w] = f]
            /\ futures' = [futures EXCEPT ![f] = r.fut]
            /\ evQueue' = r.queue
            /\ emitted' = r.emitted
            /\ ret' = Ret(t, "setFuture", None, futures[f].state)
    /\ posted' = posted \o SubSeq(evQueue', Len(evQueue) + 1, Len(evQueue'))
    /\ UNCHANGED <<submitted, execVars, poolQueue, pc, cur, idx, snap,
                   runVars, warned, assertFailed, wstate, called,
                   dispatched>>
    /\ UNCHANGED otherVars

\* A loop that delivers the event posted last.
nextPostedEvent_last(queue) ==
    [receiver |-> queue[Len(queue)],
     rest |-> SubSeq(queue, 1, Len(queue) - 1)]

\* The event the loop delivers next, the one posted first, and the events
\* it leaves posted.
nextPostedEvent(queue) == [receiver |-> Head(queue), rest |-> Tail(queue)]

\* The owner's event loop delivers the next FutureDone event:
\* FutureWatcher.customEvent and __emitSignals.
customEvent ==
    /\ pc[Owner] = Idle
    /\ evQueue # <<>>
    /\ LET w == nextPostedEvent(evQueue).receiver
           f == watched[w]
       IN
       /\ evQueue' = nextPostedEvent(evQueue).rest
       /\ dispatched' = Append(dispatched, w)
       /\ IF f = 0 \/ ~done(futures[f])
          THEN /\ assertFailed' = TRUE
               /\ emitted' = emitted
          ELSE /\ emitted' = [emitted EXCEPT ![w] =
                                  @ \o emitSignals(f, futures[f], Owner)]
               /\ assertFailed' = assertFailed
    /\ UNCHANGED <<futures, submitted, execVars, poolQueue, pc, cur, idx,
                   snap, ret, runVars, warned, watched, wstate, called,
                   posted>>
    /\ UNCHANGED otherVars

\* The future of watcher w as FutureWatcher.__future holds it.
WatchedFuture(w) ==
    IF watched[w] = 0 THEN NoFuture ELSE futures[watched[w]]

\* What a call of r by thread t leaves in ret: whether it raised, the value,
\* and the state of the watched future at the call.
Outcome_of(t, op, r, fut) ==
    Ret(t, IF r.raises THEN op.raise ELSE op.return, r.value, fut.state)

ResultOp == [raise |-> "result_raise", return |-> "result_return"]
ExceptionOp == [raise |-> "exception_raise", return |-> "exception_return"]

\* FutureWatcher.result called by client t.
FutureWatcher_result(t, w) ==
    /\ pc[t] = Idle
    /\ wstate[w] # "collected"
    /\ ret' = Outcome_of(t, ResultOp, watcher_result(WatchedFuture(w)),
                         WatchedFuture(w))
    /\ UNCHANGED <<futures, submitted, execVars, poolQueue, pc, cur, idx,
                   snap, runVars, warned, watchVars>>
    /\ UNCHANGED restVars

\* FutureWatcher.exception called by client t.
FutureWatcher_exception(t, w) ==
    /\ pc[t] = Idle
    /\ wstate[w] # "collected"
    /\ ret' = Outcome_of(t, ExceptionOp, watcher_exception(WatchedFuture(w)),
                         WatchedFuture(w))
    /\ UNCHANGED <<futures, submitted, execVars, poolQueue, pc, cur, idx,
                   snap, runVars, warned, watchVars>>
    /\ UNCHANGED restVars

\* Qt removes the events posted to a QObject when the object is deleted.
removePostedEvents(queue, w) == SelectSeq(queue, LAMBDA r : r # w)

\* The C++ side of watcher w is deleted (by its parent, or deleteLater)
\* while the Python wrapper is still referenced.
FutureWatcher_deleted(w) ==
    /\ pc[Owner] = Idle
    /\ wstate[w] = "alive"
    /\ wstate' = [wstate EXCEPT ![w] = "deleted"]
    /\ evQueue' = removePostedEvents(evQueue, w)
    /\ UNCHANGED <<futures, submitted, execVars, poolQueue, pc, cur, idx,
                   snap, ret, runVars, warned, watched, emitted,
                   assertFailed>>
    /\ UNCHANGED restVars

\* The last reference to watcher w is dropped: the object is destroyed and
\* the weak reference on_done holds is dead.
FutureWatcher_collected(w) ==
    /\ pc[Owner] = Idle
    /\ wstate[w] # "collected"
    /\ wstate' = [wstate EXCEPT ![w] = "collected"]
    /\ evQueue' = removePostedEvents(evQueue, w)
    /\ UNCHANGED <<futures, submitted, execVars, poolQueue, pc, cur, idx,
                   snap, ret, runVars, warned, watched, emitted,
                   assertFailed>>
    /\ UNCHANGED restVars

\* -------------------------------------------------- method_invoke calls

\* What the calls of method_invoke and of its callable leave alone.
concVars == <<futures, submitted, execVars, poolQueue, cur, idx, snap,
              runVars, warned, watchVars, called, posted, dispatched>>

\* Thread t calls method_invoke(method, sig, conntype), lines 63-80; the
\* method is a bound method of the target, or of an object that is no
\* QObject.
method_invoke_call(t, isQObject, conntype) ==
    /\ pc[t] = Idle
    /\ callable = NoCallable
    /\ target # "collected"
    /\ IF ~isQObject
       THEN /\ ret' = Ret(t, "method_invoke", "TypeError", None)
            /\ callable' = callable
       ELSE /\ ret' = Ret(t, "method_invoke", None, None)
            /\ callable' = method_invoke(Sig, conntype)
    /\ UNCHANGED <<concVars, pc, target, metaQueue, slotCalls, managerVars>>

\* Thread t calls the callable with args: call, lines 72-78. A worker
\* thread calls it from inside the task it runs.
call(t, args) ==
    /\ pc[t] = Idle
    /\ callable # NoCallable
    /\ target = "alive" => Len(slotCalls) + Len(metaQueue) < MaxCalls
    /\ IF target = "collected"
       THEN \* ref() is None: return False
            /\ ret' = Ret(t, "call", "False", None)
            /\ UNCHANGED <<pc, metaQueue, slotCalls>>
       ELSE IF target = "deleted"
       THEN \* invokeMethod on a wrapper whose C++ object is deleted
            /\ ret' = Ret(t, "call", "RuntimeError", None)
            /\ UNCHANGED <<pc, metaQueue, slotCalls>>
       ELSE LET qargs == Q_ARGS(callable.sig, args)
                mode == ConnectionType(callable.conntype, t)
            IN
            IF Len(qargs) # SlotArity
            THEN \* no such method: invokeMethod returns False
                 /\ ret' = Ret(t, "call", "False", None)
                 /\ UNCHANGED <<pc, metaQueue, slotCalls>>
            ELSE IF mode = "Direct"
            THEN /\ slotCalls' = Append(slotCalls, SlotCall(Values(qargs), t))
                 /\ ret' = Ret(t, "call", "True", None)
                 /\ UNCHANGED <<pc, metaQueue>>
            ELSE IF mode = "Queued"
            THEN /\ metaQueue' = Append(metaQueue, MetaCall(qargs, t, FALSE))
                 /\ ret' = Ret(t, "call", "True", None)
                 /\ UNCHANGED <<pc, slotCalls>>
            ELSE \* BlockingQueued: the caller waits for the target's thread
                 /\ metaQueue' = Append(metaQueue, MetaCall(qargs, t, TRUE))
                 /\ pc' = [pc EXCEPT ![t] = "invoke_blocked"]
                 /\ UNCHANGED <<ret, slotCalls>>
    /\ UNCHANGED <<concVars, callable, target, managerVars>>

\* The owner's event loop delivers the next posted meta-call: the slot
\* runs in the owner thread, and a caller that waits for it goes on.
metaCallEvent ==
    /\ pc[Owner] = Idle
    /\ metaQueue # <<>>
    /\ LET e == Head(metaQueue) IN
       /\ metaQueue' = Tail(metaQueue)
       /\ slotCalls' = Append(slotCalls, SlotCall(Values(e.args), Owner))
       /\ IF e.blocking
          THEN /\ pc' = [pc EXCEPT ![e.sender] = Idle]
               /\ ret' = Ret(e.sender, "call", "True", None)
          ELSE UNCHANGED <<pc, ret>>
    /\ UNCHANGED <<concVars, callable, target, managerVars>>

\* The threads that wait in a blocking call go on when the meta-calls
\* posted to the target are removed with it.
Released(p) ==
    [t \in Threads |-> IF p[t] = "invoke_blocked" THEN Idle ELSE p[t]]

\* The C++ side of the target is deleted in its thread while the Python
\* wrapper is still referenced.
target_deleted ==
    /\ pc[Owner] = Idle
    /\ target = "alive"
    /\ target' = "deleted"
    /\ metaQueue' = <<>>
    /\ pc' = Released(pc)
    /\ UNCHANGED <<concVars, callable, ret, slotCalls, managerVars>>

\* The client drops its reference to the target, the last one unless the
\* callable holds one: the target is destroyed and the weak reference of
\* the callable is dead.
target_released ==
    /\ pc[Owner] = Idle
    /\ target # "collected"
    /\ ~callable.strong
    /\ target' = "collected"
    /\ metaQueue' = <<>>
    /\ pc' = Released(pc)
    /\ UNCHANGED <<concVars, callable, ret, slotCalls, managerVars>>

\* ------------------------------------------- WidgetManager operations

\* What the widget manager leaves alone.
notManagerVars == <<concVars, pc, invokeVars>>

\* A new entry of wm_regs.
Registration(node) == [node |-> node, built |-> 0, failed |-> 0, widget |-> 0]

\* list.remove(x): the list without the first x.
RemoveFirst(seq, x) ==
    LET i == CHOOSE i \in 1..Len(seq) :
                 seq[i] = x /\ \A j \in 1..(i - 1) : seq[j] # x
    IN  SubSeq(seq, 1, i - 1) \o SubSeq(seq, i + 1, Len(seq))

\* A __materialize that leaves the future as it is.
materialize_future_unset(fut, widget) == [fut |-> fut, raised |-> FALSE]

\* __materialize, line 183: future.set_result(widget).
materialize_future(fut, widget) == set_result(fut, WidgetValue(widget))

\* A __materialize that discards the state of the node when
\* create_widget_instance raises.
build_raised_discarding(state, init, futs, regs) ==
    [raised |-> "BuildError", state |-> state,
     initstate |-> [init EXCEPT ![state.node] = NoState],
     widgets |-> wm_widgets,
     widget_for_node |-> wm_widget_for_node,
     node_for_widget |-> wm_node_for_widget,
     futures |-> futs, signals |-> wm_signals,
     observed |-> wm_observed,
     regs |-> [regs EXCEPT ![state.future].failed = @ + 1]]

\* __materialize, line 164: create_widget_instance raises, before anything
\* is assigned, and the exception leaves __materialize.
build_raised(state, init, futs, regs) ==
    [raised |-> "BuildError", state |-> state, initstate |-> init,
     widgets |-> wm_widgets,
     widget_for_node |-> wm_widget_for_node,
     node_for_widget |-> wm_node_for_widget,
     futures |-> futs, signals |-> wm_signals,
     observed |-> wm_observed,
     regs |-> [regs EXCEPT ![state.future].failed = @ + 1]]

\* WidgetManager.__materialize(state), lines 159-186, in a manager whose
\* __initstate_for_node, futures and registrations are init, futs and regs:
\* what it raised, the state it returns and what it leaves in the manager.
\* __initialize_widget_state, line 178, changes nothing of the manager.
materialize(state, ok, init, futs, regs) ==
    LET node == state.node
        f == state.future
        b == create_widget_instance(node, ok)
        r == materialize_future(futs[f], b.widget)
    IN  IF b.raises
        THEN build_raised(state, init, futs, regs)
        ELSE [raised |-> IF r.raised THEN "InvalidStateError" ELSE None,
              state |-> Materialized(node, b.widget),
              initstate |-> [init EXCEPT ![node] =
                                Materialized(node, b.widget)],
              widgets |-> Append(wm_widgets, b.widget),
              widget_for_node |->
                  [wm_widget_for_node EXCEPT ![node] = b.widget],
              node_for_widget |-> Append(wm_node_for_widget, node),
              futures |-> [futs EXCEPT ![f] = r.fut],
              signals |-> IF r.raised THEN wm_signals
                          ELSE Append(wm_signals,
                                      Signal("added", node, b.widget)),
              observed |->
                  IF r.raised THEN wm_observed
                  ELSE Append(wm_observed,
                              Observed("added", node, b.widget,
                                       [init EXCEPT ![node] =
                                           Materialized(node, b.widget)],
                                       wm_deleted)),
              regs |-> [regs EXCEPT ![f].built = @ + 1,
                                    ![f].widget = b.widget]]

\* The manager as __materialize left it.
Materialize(m) ==
    /\ wm_initstate_for_node' = m.initstate
    /\ wm_widgets' = m.widgets
    /\ wm_widget_for_node' = m.widget_for_node
    /\ wm_node_for_widget' = m.node_for_widget
    /\ wm_futures' = m.futures
    /\ wm_signals' = m.signals
    /\ wm_observed' = m.observed
    /\ wm_regs' = m.regs

\* An add_widget_for_node that sends the event at once, whatever the policy.
schedules_later_never(delayed_init) == FALSE

\* add_widget_for_node, line 146: if self.__delayed_init, the event is
\* posted later by a timer, else it is sent at once.
schedules_later(delayed_init) == delayed_init

\* WidgetManager.add_widget_for_node(node), lines 141-157, for a node the
\* scheme has just added.
add_widget_for_node(n, ok) ==
    /\ pc[Owner] = Idle
    /\ Len(wm_futures) < MaxRegs
    /\ wm_initstate_for_node[n].kind = "none"
    /\ LET f == Len(wm_futures) + 1
           state == Delayed(n, f)
           init == [wm_initstate_for_node EXCEPT ![n] = state]
           futs == Append(wm_futures, NewFuture)
           regs == Append(wm_regs, Registration(n))
       IN
       IF schedules_later(wm_delayed_init)
       THEN \* QTimer.singleShot(int(1000 / 30) + 10, schedule_later)
            /\ wm_initstate_for_node' = init
            /\ wm_futures' = futs
            /\ wm_regs' = regs
            /\ wm_timers' = Append(wm_timers, WidgetInitEvent(state))
            /\ UNCHANGED <<wm_widgets, wm_widget_for_node,
                           wm_node_for_widget, wm_signals, wm_observed>>
       ELSE \* sendEvent: customEvent runs at once
            /\ Materialize(materialize(state, ok, init, futs, regs))
            /\ wm_timers' = wm_timers
    /\ ret' = Ret(Owner, "add_widget_for_node", None, None)
    /\ UNCHANGED <<notManagerVars, wm_delayed_init, wm_events, wm_deleted>>

\* The timer of add_widget_for_node is due: schedule_later, lines 147-152,
\* posts the event.
schedule_later ==
    /\ pc[Owner] = Idle
    /\ wm_timers # <<>>
    /\ wm_events' = Append(wm_events, Head(wm_timers))
    /\ wm_timers' = Tail(wm_timers)
    /\ UNCHANGED <<notManagerVars, ret, wm_delayed_init,
                   wm_initstate_for_node, wm_widget_for_node,
                   wm_node_for_widget, wm_widgets, wm_futures, wm_regs,
                   wm_signals, wm_observed, wm_deleted>>

\* An event that stands for the state its node has when it is delivered.
initstate_current(e) ==
    IF wm_initstate_for_node[e.node].kind = "Delayed"
    THEN wm_initstate_for_node[e.node]
    ELSE Delayed(e.node, e.future)

\* WidgetInitEvent.initstate, lines 70-71: the Delayed state the event was
\* made with.
initstate(e) == Delayed(e.node, e.future)

\* The owner's loop delivers the next WidgetInitEvent:
\* WidgetManager.customEvent, lines 224-230.
WidgetManager_customEvent(ok) ==
    /\ pc[Owner] = Idle
    /\ wm_events # <<>>
    /\ LET state == initstate(Head(wm_events)) IN
       /\ wm_events' = Tail(wm_events)
       /\ IF customEvent_skips(wm_futures[state.future])
          THEN UNCHANGED <<wm_initstate_for_node, wm_widget_for_node,
                           wm_node_for_widget, wm_widgets, wm_futures,
                           wm_regs, wm_signals, wm_observed>>
          ELSE /\ ok \/ wm_regs[state.future].failed < MaxFailed
               /\ Materialize(materialize(state, ok,
                                          wm_initstate_for_node, wm_futures,
                                          wm_regs))
    /\ UNCHANGED <<notManagerVars, ret, wm_delayed_init, wm_timers,
                   wm_deleted>>

\* WidgetManager.widget_for_node(node), lines 118-127.
widget_for_node(n, ok) ==
    /\ pc[Owner] = Idle
    /\ LET state == wm_initstate_for_node[n] IN
       IF state.kind = "none"
       THEN /\ ret' = Ret(Owner, "widget_for_node", "KeyError", None)
            /\ UNCHANGED <<wm_initstate_for_node, wm_widget_for_node,
                           wm_node_for_widget, wm_widgets, wm_futures,
                           wm_regs, wm_signals, wm_observed>>
       ELSE IF state.kind = "Delayed"
       THEN LET m == materialize(state, ok, wm_initstate_for_node,
                                 wm_futures, wm_regs)
            IN
            /\ ok \/ wm_regs[state.future].failed < MaxFailed
            /\ Materialize(m)
            /\ ret' = Ret(Owner, "widget_for_node",
                          IF m.raised # None THEN m.raised
                          ELSE WidgetValue(m.state.widget), None)
       ELSE /\ ret' = Ret(Owner, "widget_for_node",
                          WidgetValue(state.widget), None)
            /\ UNCHANGED <<wm_initstate_for_node, wm_widget_for_node,
                           wm_node_for_widget, wm_widgets, wm_futures,
                           wm_regs, wm_signals, wm_observed>>
    /\ UNCHANGED <<notManagerVars, wm_delayed_init, wm_timers, wm_events,
                   wm_deleted>>

\* The parts of the manager remove_widget_for_node works on.
Manager ==
    [initstate |-> wm_initstate_for_node,
     widget_for_node |-> wm_widget_for_node, widgets |-> wm_widgets,
     signals |-> wm_signals, observed |-> wm_observed,
     deleted |-> wm_deleted]

\* A removal that emits widget_for_node_removed twice.
remove_emit_twice(n, w, mgr) ==
    [mgr EXCEPT
        !.signals = Append(Append(@, Signal("removed", n, w)),
                           Signal("removed", n, w)),
        !.observed = Append(@, Observed("removed", n, w, mgr.initstate,
                                        mgr.deleted))]

\* Line 198: widget_for_node_removed.emit(node, state.widget).
remove_emit(n, w, mgr) ==
    [mgr EXCEPT
        !.signals = Append(@, Signal("removed", n, w)),
        !.observed = Append(@, Observed("removed", n, w, mgr.initstate,
                                        mgr.deleted))]

\* Lines 199 and 215: remove_widget(state.widget) calls widget.deleteLater(),
\* which returns at once.
remove_widget(n, w, mgr) ==
    [mgr EXCEPT
        !.observed = Append(@, Observed("deleteLater", n, w, mgr.initstate,
                                        mgr.deleted)),
        !.deleted = @ \cup {w}]

\* Lines 200-202: the widget leaves __widgets, the node leaves
\* __initstate_for_node and __widget_for_node.
remove_discard(n, w, mgr) ==
    [mgr EXCEPT
        !.widgets = RemoveFirst(@, w),
        !.initstate = [@ EXCEPT ![n] = NoState],
        !.widget_for_node = [@ EXCEPT ![n] = 0]]

\* A removal that discards the node's state before it emits and disposes.
remove_materialized_discard_first(n, w, mgr) ==
    remove_widget(n, w, remove_emit(n, w, remove_discard(n, w, mgr)))

\* A removal that disposes of the widget before it emits.
remove_materialized_dispose_first(n, w, mgr) ==
    remove_discard(n, w, remove_emit(n, w, remove_widget(n, w, mgr)))

\* remove_widget_for_node on a Materialized node, lines 198-202, in order.
remove_materialized(n, w, mgr) ==
    remove_discard(n, w, remove_widget(n, w, remove_emit(n, w, mgr)))

\* WidgetManager.remove_widget_for_node(node), lines 192-204, with
\* remove_widget, line 215.
remove_widget_for_node(n) ==
    /\ pc[Owner] = Idle
    /\ LET state == wm_initstate_for_node[n] IN
       IF state.kind = "none"
       THEN /\ ret' = Ret(Owner, "remove_widget_for_node", "KeyError", None)
            /\ UNCHANGED <<wm_initstate_for_node, wm_widget_for_node,
                           wm_widgets, wm_futures, wm_signals, wm_observed,
                           wm_deleted>>
       ELSE IF state.kind = "Delayed"
       THEN /\ wm_futures' =
                  [wm_futures EXCEPT ![state.future] =
                      remove_delayed_future(@)]
            /\ wm_initstate_for_node' =
                  [wm_initstate_for_node EXCEPT ![n] = NoState]
            /\ ret' = Ret(Owner, "remove_widget_for_node", None, None)
            /\ UNCHANGED <<wm_widget_for_node, wm_widgets, wm_signals,
                           wm_observed, wm_deleted>>
       ELSE LET m == remove_materialized(n, state.widget, Manager) IN
            /\ wm_signals' = m.signals
            /\ wm_observed' = m.observed
            /\ wm_deleted' = m.deleted
            /\ wm_widgets' = m.widgets
            /\ wm_initstate_for_node' = m.initstate
            /\ wm_widget_for_node' = m.widget_for_node
            /\ ret' = Ret(Owner, "remove_widget_for_node", None, None)
            /\ UNCHANGED wm_futures
    /\ UNCHANGED <<notManagerVars, wm_delayed_init, wm_node_for_widget,
                   wm_regs, wm_timers, wm_events>>

\* ------------------------------------------- WidgetManager and its scheme

\* The manager as set_scheme and close work on it, and whether a call they
\* made has raised.
SchemeManager ==
    [mgr |-> Manager, futures |-> wm_futures, regs |-> wm_regs,
     timers |-> wm_timers, scheme |-> wm_scheme, raised |-> FALSE]

\* remove_widget_for_node(node), lines 192-202, as close calls it: a
\* KeyError of line 192 leaves the manager as it is and ends the caller.
remove_for_node(n, m) ==
    LET state == m.mgr.initstate[n] IN
    IF m.raised THEN m
    ELSE IF state.kind = "none" THEN [m EXCEPT !.raised = TRUE]
    ELSE IF state.kind = "Delayed"
    THEN [m EXCEPT !.futures[state.future] = remove_delayed_future(@),
                   !.mgr.initstate[n] = NoState]
    ELSE [m EXCEPT !.mgr = remove_materialized(n, state.widget, @)]

\* close, lines 259-260: for node in self.__scheme.nodes.
RECURSIVE remove_each(_, _)
remove_each(nodes, m) ==
    IF nodes = <<>> THEN m
    ELSE remove_each(Tail(nodes), remove_for_node(Head(nodes), m))

\* add_widget_for_node(node), lines 141-154, as set_scheme calls it in a
\* manager whose __delayed_init is True.
add_for_node(n, m) ==
    LET f == Len(m.futures) + 1
        state == Delayed(n, f)
    IN  [m EXCEPT !.mgr.initstate[n] = state,
                  !.futures = Append(@, NewFuture),
                  !.regs = Append(@, Registration(n)),
                  !.timers = Append(@, WidgetInitEvent(state))]

\* set_scheme, lines 97-98: for node in scheme.nodes.
RECURSIVE add_each(_, _)
add_each(nodes, m) ==
    IF nodes = <<>> THEN m
    ELSE add_each(Tail(nodes), add_for_node(Head(nodes), m))

\* A close that only dissociates the manager from the scheme.
closed_keeping_widgets(m) ==
    IF m.scheme = NoScheme THEN m ELSE [m EXCEPT !.scheme = NoScheme]

\* close(), lines 255-263, on the manager m.
closed(m) ==
    IF m.scheme = NoScheme THEN m
    ELSE LET r == remove_each(scheme_nodes, m) IN
         IF r.raised THEN r ELSE [r EXCEPT !.scheme = NoScheme]

\* set_scheme(scheme), lines 88-98, on the manager m.
scheme_set(scheme, m) ==
    IF m.scheme = scheme THEN m
    ELSE LET c == IF m.scheme # NoScheme THEN closed(m) ELSE m
             a == [c EXCEPT !.scheme = scheme]
         IN  IF c.raised THEN c
             ELSE IF scheme # NoScheme THEN add_each(scheme_nodes, a)
             ELSE a

\* The manager as set_scheme or close left it.
SchemeManaged(m) ==
    /\ wm_initstate_for_node' = m.mgr.initstate
    /\ wm_widget_for_node' = m.mgr.widget_for_node
    /\ wm_widgets' = m.mgr.widgets
    /\ wm_signals' = m.mgr.signals
    /\ wm_observed' = m.mgr.observed
    /\ wm_deleted' = m.mgr.deleted
    /\ wm_futures' = m.futures
    /\ wm_regs' = m.regs
    /\ wm_timers' = m.timers
    /\ wm_scheme' = m.scheme

\* WidgetManager.close(), lines 255-263.
close ==
    /\ pc[Owner] = Idle
    /\ LET m == closed(SchemeManager) IN
       /\ SchemeManaged(m)
       /\ ret' = Ret(Owner, "close",
                     IF m.raised THEN "KeyError" ELSE None, None)
    /\ UNCHANGED <<notManagerVars, wm_delayed_init, wm_node_for_widget,
                   wm_events, scheme_nodes>>

\* WidgetManager.set_scheme(scheme), lines 88-98.
set_scheme(scheme) ==
    /\ pc[Owner] = Idle
    /\ wm_delayed_init
    /\ Len(wm_futures) + Len(scheme_nodes) <= MaxRegs
    /\ LET m == scheme_set(scheme, SchemeManager) IN
       /\ SchemeManaged(m)
       /\ ret' = Ret(Owner, "set_scheme",
                     IF m.raised THEN "KeyError" ELSE None, None)
    /\ UNCHANGED <<notManagerVars, wm_delayed_init, wm_node_for_widget,
                   wm_events, scheme_nodes>>

\* The scheme gets a node. A manager installed on the scheme is sent the
\* NodeAdded event: eventFilter, lines 242-244.
Scheme_add_node(n, ok) ==
    /\ n \notin {scheme_nodes[i] : i \in 1..Len(scheme_nodes)}
    /\ scheme_nodes' = Append(scheme_nodes, n)
    /\ IF wm_scheme = TheScheme
       THEN add_widget_for_node(n, ok)
       ELSE /\ pc[Owner] = Idle
            /\ UNCHANGED <<notManagerVars, ret, wm_delayed_init,
                           wm_initstate_for_node, wm_widget_for_node,
                           wm_node_for_widget, wm_widgets, wm_futures,
                           wm_regs, wm_timers, wm_events, wm_signals,
                           wm_observed, wm_deleted>>
    /\ UNCHANGED wm_scheme

\* The scheme loses a node. A manager installed on the scheme is sent the
\* NodeRemoved event: eventFilter, lines 245-247.
Scheme_remove_node(n) ==
    /\ n \in {scheme_nodes[i] : i \in 1..Len(scheme_nodes)}
    /\ scheme_nodes' = RemoveFirst(scheme_nodes, n)
    /\ IF wm_scheme = TheScheme
       THEN remove_widget_for_node(n)
       ELSE /\ pc[Owner] = Idle
            /\ UNCHANGED <<notManagerVars, ret, wm_delayed_init,
                           wm_initstate_for_node, wm_widget_for_node,
                           wm_node_for_widget, wm_widgets, wm_futures,
                           wm_regs, wm_timers, wm_events, wm_signals,
                           wm_observed, wm_deleted>>
    /\ UNCHANGED wm_scheme

\* ---------------------------------------------------------------- Next

\* The executor, the futures and the pool.
NextExec ==
    \/ \E t \in Clients, func \in Callables : submit_enter(t, func)
    \/ \E t \in Clients : submit_return(t)
    \/ \E t \in Clients, func \in Callables : submit(t, func)
    \/ \E t \in Clients, wait \in BOOLEAN : shutdown(t, wait)
    \/ \E t \in Clients : shutdown_wait(t)
    \/ \E t \in Clients : \E f \in FutureIds : cancel_call(t, f)
    \/ \E t \in Threads : invoke_callbacks(t)
    \/ \E w \in Workers : FutureRunnable_run(w)
    \/ \E w \in Workers : FutureRunnable_call(w)

\* The same, with the watchers and the owner's event loop.
Next ==
    \/ NextExec
    \/ \E w \in Watchers : \E f \in FutureIds : setFuture(Owner, w, f)
    \/ customEvent

Spec == Init /\ [][Next]_vars

\* The same, with the watchers' result() and exception() and with watchers
\* that are destroyed.
NextWatch ==
    \/ Next
    \/ \E w \in Watchers : FutureWatcher_result(Owner, w)
    \/ \E w \in Watchers : FutureWatcher_exception(Owner, w)
    \/ \E w \in Watchers : FutureWatcher_deleted(w)
    \/ \E w \in Watchers : FutureWatcher_collected(w)

SpecWatch == Init /\ [][NextWatch]_vars

\* The executor with NumOrdered watchers and the owner's event loop.
NextOrder ==
    \/ \E t \in Clients, func \in Callables : submit_enter(t, func)
    \/ \E t \in Clients : submit_return(t)
    \/ \E t \in Clients : \E f \in FutureIds : cancel_call(t, f)
    \/ \E t \in Threads : invoke_callbacks(t)
    \/ \E w \in Workers : FutureRunnable_run(w)
    \/ \E w \in Workers : FutureRunnable_call(w)
    \/ \E w \in 1..NumOrdered : \E f \in FutureIds : setFuture(Owner, w, f)
    \/ customEvent

SpecOrder == InitOrder /\ [][NextOrder]_vars

\* method_invoke, its callable called from any thread, and the owner's
\* event loop.
NextInvoke ==
    \/ \E t \in Clients, isQObject \in BOOLEAN, conntype \in ConnTypes :
           method_invoke_call(t, isQObject, conntype)
    \/ \E t \in Threads, args \in InvokeArgs : call(t, args)
    \/ metaCallEvent
    \/ target_deleted
    \/ target_released

SpecInvoke == Init /\ [][NextInvoke]_vars

\* The widget manager, its callers and the owner's event loop.
NextManager ==
    \/ \E n \in Nodes, ok \in BOOLEAN :
           add_widget_for_node(n, ok) /\ UNCHANGED schemeVars
    \/ schedule_later /\ UNCHANGED schemeVars
    \/ \E ok \in BOOLEAN :
           WidgetManager_customEvent(ok) /\ UNCHANGED schemeVars
    \/ \E n \in Nodes, ok \in BOOLEAN :
           widget_for_node(n, ok) /\ UNCHANGED schemeVars
    \/ \E n \in Nodes :
           remove_widget_for_node(n) /\ UNCHANGED schemeVars

SpecManager == Init /\ [][NextManager]_vars

\* The widget manager installed on a scheme: the scheme's nodes come and
\* go, widgets are asked for, and the manager is closed or given the
\* scheme or None.
NextScheme ==
    \/ \E scheme \in {NoScheme, TheScheme} : set_scheme(scheme)
    \/ close
    \/ \E n \in Nodes, ok \in BOOLEAN : Scheme_add_node(n, ok)
    \/ \E n \in Nodes : Scheme_remove_node(n)
    \/ schedule_later /\ UNCHANGED schemeVars
    \/ \E ok \in BOOLEAN :
           WidgetManager_customEvent(ok) /\ UNCHANGED schemeVars
    \/ \E n \in Nodes, ok \in BOOLEAN :
           widget_for_node(n, ok) /\ UNCHANGED schemeVars

SpecScheme == Init /\ [][NextScheme]_vars

\* The same for a manager with either policy.
SpecPolicy == InitPolicy /\ [][NextManager]_vars

\* The executor with its watchers and the widget manager, one of them in
\* use: they share no state but the record of the last call returned, so
\* what either does to its futures does not depend on the other.
ManagerUnused ==
    /\ wm_futures = <<>>
    /\ ret.op \notin {"widget_for_node", "remove_widget_for_node"}

ExecUnused == futures = <<>> /\ ~shutdownFlag

NextFutures ==
    \/ ManagerUnused /\ Next
    \/ ExecUnused /\ NextManager

SpecFutures == Init /\ [][NextFutures]_vars

\* The owner's event loop is running: a posted meta-call is delivered.
FairSpecInvoke == SpecInvoke /\ WF_vars(metaCallEvent)

\* The executor without watchers.
SpecExec == Init /\ [][NextExec]_vars

\* A thread that can take a step eventually takes it: the pool's threads
\* run the tasks handed to them, a thread inside submit leaves it, and a
\* thread that runs done-callbacks gets the executor's lock once it is free.
Fairness ==
    /\ \A w \in Workers : WF_vars(FutureRunnable_run(w))
    /\ \A w \in Workers : WF_vars(FutureRunnable_call(w))
    /\ \A t \in Threads : WF_vars(invoke_callbacks(t))
    /\ \A t \in Clients : WF_vars(submit_return(t))

FairSpec == SpecExec /\ Fairness

\* The same, where a wait for futures that are all done returns.
FairSpecShutdown ==
    FairSpec /\ \A t \in Clients : WF_vars(shutdown_wait(t))

\* The owner's event loop is running: a wait for futures that are all done
\* returns, and the loop delivers a posted event whenever the owner is
\* back in it, however often the owner leaves it for a call.
LoopFairness ==
    /\ \A t \in Clients : WF_vars(shutdown_wait(t))
    /\ SF_vars(customEvent)

FairSpecLoop == Spec /\ Fairness /\ LoopFairness

\* ======================================================================
\* Properties
\* ======================================================================

\* The terminal state a future is in, if any.
Outcome(fut) ==
    IF cancelled(fut) THEN "cancelled"
    ELSE IF fut.state = FINISHED
    THEN IF fut.exception # None THEN "error" ELSE "result"
    ELSE "none"

\* set_running_or_notify_cancel has returned True for future f.
Started(f) ==
    \/ invoked[f] > 0
    \/ \E w \in Workers : pc[w] = "run_call" /\ cur[w].future = f

ViaExecutor(f) == submitted[f].via = "executor"

\* C1: every future created by a submit (the executor's or the module's)
\* eventually is in a terminal state (finished with a result, finished
\* with an error, or cancelled), and once it is in one it never is in
\* another, when the pool's threads are scheduled fairly.
C1_OneTerminalStateEventually ==
    /\ [][\A f \in FutureIds :
            Outcome(futures[f]) # "none"
                => Outcome(futures'[f]) = Outcome(futures[f])]_vars
    /\ \A f \in 1..MaxFutures :
          (f \in FutureIds) ~> (f \in FutureIds /\ done(futures[f]))

\* Two tasks were submitted: one raised, the other was cancelled in time.
C1_Witness ==
    \E f, g \in FutureIds :
        /\ Outcome(futures[f]) = "error"
        /\ Outcome(futures[g]) = "cancelled"

C3_CancelledNeverInvoked ==
    \A f \in FutureIds :
        cancelled(futures[f])
            => /\ invoked[f] = 0
               /\ \A w \in Workers : cur[w].future # f \/ pc[w] # "run_call"

\* A pool thread has picked the task of a cancelled future up and
\* returned without calling the callable.
C3_Witness ==
    \E f \in FutureIds :
        /\ futures[f].state = CANCELLED_AND_NOTIFIED
        /\ invoked[f] = 0
        /\ \A w \in Workers : pc[w] = Idle

\* C4: nothing is raised out of FutureRunnable.run; a finished future
\* whose callable raised has that error as exception() and result() raises
\* it; a finished future whose callable returned has the value returned as
\* result() and no exception.
C4_OutcomeStored ==
    /\ ~escaped
    /\ \A f \in FutureIds :
          futures[f].state = FINISHED =>
              LET out == Call(submitted[f].func) IN
              IF out.raises
              THEN /\ exception(futures[f])
                        = [raises |-> FALSE, value |-> out.value]
                   /\ result(futures[f])
                        = [raises |-> TRUE, value |-> out.value]
              ELSE /\ exception(futures[f])
                        = [raises |-> FALSE, value |-> None]
                   /\ result(futures[f])
                        = [raises |-> FALSE, value |-> out.value]

\* One task has raised and one has returned, and both futures are finished.
C4_Witness ==
    \E f, g \in FutureIds :
        /\ futures[f].state = FINISHED /\ Call(submitted[f].func).raises
        /\ futures[g].state = FINISHED /\ ~Call(submitted[g].func).raises

\* C5: once the shutdown flag is set, a submit raises RuntimeError and
\* changes nothing: no future is created, no task is handed to the pool,
\* the pending set and the lock are as they were.
C5_RejectedAfterShutdown ==
    [][\A t \in Clients :
          (shutdownFlag /\ \E func \in Callables : submit_enter(t, func))
              => /\ ret' = Ret(t, "submit", "RuntimeError", None)
                 /\ UNCHANGED <<futures, submitted, pending, poolQueue,
                                lock, pc>>]_vars

\* A submit was rejected while an accepted task is still not done.
C5_Witness ==
    /\ shutdownFlag
    /\ ret = Ret(Owner, "submit", "RuntimeError", None)
    /\ \E f \in FutureIds : ViaExecutor(f) /\ ~done(futures[f])

\* C6: with tracking, when shutdown(wait=True) has returned every future
\* submitted through the executor is terminal.
C6_WaitedForAll ==
    (track /\ ret.op = "shutdown_wait")
        => \A f \in FutureIds : ViaExecutor(f) => done(futures[f])

\* shutdown(wait=True) has returned after two tasks of the executor, one
\* that ran and one that was cancelled.
C6_Witness ==
    /\ track
    /\ ret.op = "shutdown_wait"
    /\ \E f, g \in FutureIds :
          /\ ViaExecutor(f) /\ futures[f].state = FINISHED
          /\ ViaExecutor(g) /\ futures[g].state = CANCELLED_AND_NOTIFIED

\* C7: without tracking, shutdown(wait=True) has warned and set the flag
\* when it reaches its wait, the wait does not block, and both hold when
\* it has returned.
C7_UntrackedDoesNotBlock ==
    ~track =>
        /\ \A t \in Clients :
              pc[t] = "shutdown_wait"
                  => warned /\ shutdownFlag /\ ENABLED shutdown_wait(t)
        /\ ret.op = "shutdown_wait" => warned /\ shutdownFlag

\* Without tracking shutdown(wait=True) has returned while a task of the
\* executor is running and another is still pending.
C7_Witness ==
    /\ ~track
    /\ ret.op = "shutdown_wait"
    /\ \E f, g \in FutureIds :
          /\ ViaExecutor(f) /\ futures[f].state = RUNNING
          /\ ViaExecutor(g) /\ futures[g].state = PENDING

\* The signals of a sequence of emissions, with their arguments.
Signals(em) == [i \in 1..Len(em) |-> <<em[i].signal, em[i].arg>>]

\* C8: what a watcher has emitted is nothing or, for its future,
\* cancelled, done when it is cancelled; finished, done, resultReady with
\* the result when it finished with a result; finished, done,
\* exceptionReady with the error when it finished with an error.
C8_SignalOrder ==
    \A w \in Watchers :
        emitted[w] # <<>> =>
            /\ watched[w] # 0
            /\ \A i \in 1..Len(emitted[w]) :
                  emitted[w][i].future = watched[w]
            /\ LET fut == futures[watched[w]]
                   sigs == Signals(emitted[w])
               IN
               \/ /\ Outcome(fut) = "cancelled"
                  /\ sigs = <<(<<"cancelled", None>>), (<<"done", None>>)>>
               \/ /\ Outcome(fut) = "result"
                  /\ sigs = <<(<<"finished", None>>), (<<"done", None>>),
                              (<<"resultReady", fut.result>>)>>
               \/ /\ Outcome(fut) = "error"
                  /\ sigs = <<(<<"finished", None>>), (<<"done", None>>),
                              (<<"exceptionReady", fut.exception>>)>>

\* A watcher has emitted the three signals of a task that raised.
C8_Witness ==
    \E w \in Watchers :
        /\ Len(emitted[w]) = 3
        /\ emitted[w][3].signal = "exceptionReady"

\* C9: a watcher emits only in the step in which the owner's loop
\* delivers the FutureDone event posted to it: never in setFuture, never in
\* the thread that completes or cancels the future.
C9_EmittedOnlyFromLoop ==
    [][\A w \in Watchers :
          emitted'[w] # emitted[w]
              => /\ pc[Owner] = Idle
                 /\ evQueue # <<>>
                 /\ Head(evQueue) = w
                 /\ evQueue' = Tail(evQueue)
                 /\ UNCHANGED <<futures, watched, pc, ret>>]_vars

\* setFuture was called with a future that was already finished, and the
\* loop has since delivered the event.
C9_Witness ==
    /\ ret = Ret(Owner, "setFuture", None, FINISHED)
    /\ evQueue = <<>>
    /\ \E w \in Watchers : emitted[w] # <<>>

\* C10: every signal of every watcher is emitted in the owner thread.
C10_EmittedInOwnerThread ==
    \A w \in Watchers :
        \A i \in 1..Len(emitted[w]) : emitted[w][i].thread = Owner

\* The other client thread has cancelled the only future, running the
\* done-callbacks itself, and the watcher has emitted cancelled.
C10_Witness ==
    /\ Len(futures) = 1
    /\ ret = Ret(Client, "cancel", "True", PENDING)
    /\ \E w \in Watchers :
          /\ watched[w] = 1
          /\ emitted[w] # <<>>
          /\ emitted[w][1].signal = "cancelled"

\* How often a watcher has emitted signal sig.
Count(em, sig) == Cardinality({i \in 1..Len(em) : em[i].signal = sig})

\* The done-callbacks on_done of watcher w registered on future f.
Registered(w, f) ==
    Cardinality({i \in 1..Len(futures[f].callbacks) :
                    futures[f].callbacks[i] = OnDone(w)})

\* C11: a live watcher whose future is terminal emits its notification
\* sequence exactly once: it never emits done, or cancelled or finished, a
\* second time, and with the owner's loop running it eventually emits done.
C11_EmittedExactlyOnce ==
    /\ [](\A w \in Watchers :
             /\ Count(emitted[w], "done") <= 1
             /\ Count(emitted[w], "cancelled")
                    + Count(emitted[w], "finished") <= 1)
    /\ \A w \in Watchers :
          (watched[w] # 0 /\ wstate[w] = "alive"
              /\ done(futures[watched[w]]))
            ~> (Count(emitted[w], "done") = 1)

\* A watcher was attached while its future was pending, a pool thread
\* finished the future, and the watcher has emitted done.
C11_Witness ==
    \E w \in Watchers :
        /\ watched[w] # 0
        /\ Registered(w, watched[w]) = 1
        /\ futures[watched[w]].state = FINISHED
        /\ Count(emitted[w], "done") = 1

\* C12: setFuture on a watcher that already has a future raises
\* RuntimeError; the future a watcher has is never replaced, and a watcher's
\* on_done is registered at most once, and only on the future it has.
C12_SecondSetFutureFails ==
    /\ [][\A w \in Watchers : \A f \in FutureIds :
             (watched[w] # 0 /\ setFuture(Owner, w, f))
                => /\ ret' = Ret(Owner, "setFuture", "RuntimeError",
                                 futures[f].state)
                   /\ UNCHANGED <<futures, watched, evQueue, emitted>>]_vars
    /\ [][\A w \in Watchers :
             watched[w] # 0 => watched'[w] = watched[w]]_vars
    /\ [](\A w \in Watchers : \A f \in FutureIds :
             /\ Registered(w, f) <= 1
             /\ Registered(w, f) = 1 => watched[w] = f)

\* setFuture has just failed on a watcher that watches the first of two
\* futures.
C12_Witness ==
    /\ Len(futures) = 2
    /\ ret.op = "setFuture"
    /\ ret.value = "RuntimeError"
    /\ \E w \in Watchers : watched[w] = 1

\* C13: a done-callback registered on a future that is already terminal
\* is not called inside the registering call: setFuture on a terminal
\* future returns before on_done has run, so before on_done has posted its
\* FutureDone event.
C13_CallbackNotInRegistration ==
    [][\A w \in Watchers : \A f \in FutureIds :
          (watched[w] = 0 /\ done(futures[f]) /\ setFuture(Owner, w, f))
             => evQueue' = evQueue]_vars

\* A destroyed watcher's on_done is registered on future f.
DestroyedWatcherOn(f) ==
    \E w \in Watchers : wstate[w] # "alive" /\ Registered(w, f) = 1

\* No thread is inside _invoke_callbacks of future f.
CallbacksFinished(f) ==
    \A t \in Threads : ~(pc[t] = "callbacks" /\ cur[t].future = f)

\* C16: with a destroyed watcher registered on it, a future is completed
\* as any other: the task's outcome is stored, the other done-callbacks run
\* (the executor forgets the future), no error leaves the completing
\* thread; no event is posted to a destroyed watcher and it emits nothing.
C16_DestroyedWatcherSilent ==
    /\ [][\A w \in Workers :
             (pc[w] = "run_call" /\ DestroyedWatcherOn(cur[w].future)
                 /\ FutureRunnable_call(w))
               => LET f == cur[w].future IN
                  /\ futures'[f].state = FINISHED
                  /\ Outcome(futures'[f]) =
                        (IF Call(cur[w].func).raises THEN "error"
                         ELSE "result")]_vars
    /\ [](\A f \in FutureIds :
             (DestroyedWatcherOn(f) /\ done(futures[f])
                 /\ CallbacksFinished(f)) => f \notin pending)
    /\ [](~escaped /\ ~logged /\ ~assertFailed)
    /\ [](\A w \in Watchers :
             wstate[w] # "alive"
                => \A i \in 1..Len(evQueue) : evQueue[i] # w)
    /\ [][\A w \in Watchers :
             wstate[w] # "alive" => emitted'[w] = emitted[w]]_vars

\* A watcher was attached to a future the executor tracks and destroyed
\* while the future was not terminal; the future has since finished, its
\* callbacks have run, and the watcher has emitted nothing.
C16_Witness ==
    \E w \in Watchers :
        /\ wstate[w] = "collected"
        /\ watched[w] # 0
        /\ Registered(w, watched[w]) = 1
        /\ futures[watched[w]].state = FINISHED
        /\ Len(futures[watched[w]].callbacks) = 2
        /\ CallbacksFinished(watched[w])
        /\ emitted[w] = <<>>

\* Every thread of the pool is inside a task.
PoolBusy == \A w \in Workers : pc[w] = "run_call"

\* C17: a task handed to the pool while all its threads are busy has a
\* future that is pending until it is cancelled; cancel() on the pending
\* future returns True and makes it cancelled; a cancelled future's callable
\* is never called, result() on it raises CancelledError, and a watcher
\* attached to it emits cancelled, done and nothing else, eventually.
C17_CancelWhileQueued ==
    /\ [](PoolBusy =>
             \A i \in 1..Len(poolQueue) :
                 futures[poolQueue[i].future].state \in {PENDING, CANCELLED})
    /\ [][\A t \in Clients : \A f \in FutureIds :
             (futures[f].state = PENDING /\ cancel_call(t, f))
               => /\ futures'[f].state = CANCELLED
                  /\ \/ ret' = Ret(t, "cancel", "True", PENDING)
                     \/ pc'[t] = "callbacks"]_vars
    /\ [](\A f \in FutureIds :
             cancelled(futures[f])
               => /\ invoked[f] = 0
                  /\ ~Started(f)
                  /\ result(futures[f]) =
                        [raises |-> TRUE, value |-> "CancelledError"]
                  /\ \A w \in Watchers :
                        (watched[w] = f /\ emitted[w] # <<>>)
                          => Signals(emitted[w]) =
                               <<(<<"cancelled", None>>), (<<"done", None>>)>>)
    /\ \A w \in Watchers :
          (watched[w] # 0 /\ cancelled(futures[watched[w]]))
            ~> (Signals(emitted[w]) =
                  <<(<<"cancelled", None>>), (<<"done", None>>)>>)

\* The pool's only thread is inside the first task; the second future was
\* cancelled while queued and its watcher has emitted cancelled, done.
C17_Witness ==
    /\ Len(futures) = 2
    /\ PoolBusy
    /\ \A w \in Workers : cur[w].future = 1
    /\ futures[2].state = CANCELLED
    /\ invoked[2] = 0
    /\ \E w \in Watchers :
          /\ watched[w] = 2
          /\ Signals(emitted[w]) =
                <<(<<"cancelled", None>>), (<<"done", None>>)>>

\* C18: FutureWatcher.result() and exception() return at once and leave
\* the future as it is; while the future is pending or running they raise
\* RuntimeError, on a finished future result() returns the result or
\* raises the stored exception, and exception() returns the stored
\* exception or None.
C18_ResultNeverBlocks ==
    [][\A w \in Watchers :
          LET fut == WatchedFuture(w) IN
          /\ FutureWatcher_result(Owner, w)
               => /\ UNCHANGED <<futures, pc, watched, evQueue, emitted>>
                  /\ fut.state \in {PENDING, RUNNING}
                        => /\ ret'.op = "result_raise"
                           /\ ret'.value = "RuntimeError"
                  /\ (fut.state = FINISHED /\ fut.exception = None)
                        => /\ ret'.op = "result_return"
                           /\ ret'.value = fut.result
                  /\ (fut.state = FINISHED /\ fut.exception # None)
                        => /\ ret'.op = "result_raise"
                           /\ ret'.value = fut.exception
          /\ FutureWatcher_exception(Owner, w)
               => /\ UNCHANGED <<futures, pc, watched, evQueue, emitted>>
                  /\ fut.state \in {PENDING, RUNNING}
                        => /\ ret'.op = "exception_raise"
                           /\ ret'.value = "RuntimeError"
                  /\ fut.state = FINISHED
                        => /\ ret'.op = "exception_return"
                           /\ ret'.value = fut.exception]_vars

\* result() was called while the watched future was running and raised
\* RuntimeError.
C18_Witness ==
    /\ ret = Ret(Owner, "result_raise", "RuntimeError", RUNNING)
    /\ \E w \in Watchers :
          watched[w] # 0 /\ futures[watched[w]].state = RUNNING

\* The meta-calls a queued call can post.
QueuedCalls ==
    {MetaCall(Q_ARGS(Sig, a), t, FALSE) : a \in InvokeArgs, t \in Threads}

\* C14: in queued mode a call of the callable from a pool thread returns
\* at once, True, having posted the meta-call with the arguments paired with
\* the sig and not having run the slot; the slot only runs when the owner's
\* loop delivers a posted meta-call, in the owner thread and with the
\* arguments of that meta-call; and while the target lives, a posted
\* meta-call is eventually delivered.
C14_QueuedRunsInOwnerLoop ==
    /\ [][\A t \in Workers : \A args \in InvokeArgs :
             (callable.conntype = "Queued" /\ target = "alive"
                 /\ call(t, args))
               => /\ pc'[t] = Idle
                  /\ slotCalls' = slotCalls
                  /\ Len(Q_ARGS(callable.sig, args)) = SlotArity
                       => /\ ret' = Ret(t, "call", "True", None)
                          /\ metaQueue' =
                                Append(metaQueue,
                                       MetaCall(Q_ARGS(callable.sig, args),
                                                t, FALSE))]_vars
    /\ [][(callable.conntype = "Queued" /\ slotCalls' # slotCalls)
             => /\ pc[Owner] = Idle
                /\ metaQueue # <<>>
                /\ metaQueue' = Tail(metaQueue)
                /\ slotCalls' =
                      Append(slotCalls,
                             SlotCall(Values(Head(metaQueue).args),
                                      Owner))]_vars
    /\ \A n \in 0..(MaxCalls - 1) : \A e \in QueuedCalls :
          (callable.conntype = "Queued" /\ metaQueue # <<>>
              /\ Head(metaQueue) = e /\ Len(slotCalls) = n)
            ~> \/ target # "alive"
               \/ /\ Len(slotCalls) > n
                  /\ slotCalls[n + 1] = SlotCall(Values(e.args), Owner)

\* A pool thread has called the queued callable with two arguments for a
\* sig of one, and the owner's loop has run the slot with the first.
C14_Witness ==
    /\ callable.conntype = "Queued"
    /\ ret.op = "call"
    /\ ret.thread \in Workers
    /\ metaQueue = <<>>
    /\ slotCalls = <<SlotCall(<<"x">>, Owner)>>

\* C15: a call of the callable whose target has been destroyed returns
\* False, raises nothing, posts nothing and runs nothing; and the callable
\* does not keep the target alive: the target is destroyed as soon as its
\* owner drops it.
C15_DestroyedTargetNoOp ==
    /\ [][\A t \in Threads : \A args \in InvokeArgs :
             (target # "alive" /\ call(t, args))
               => /\ ret' = Ret(t, "call", "False", None)
                  /\ UNCHANGED <<pc, target, metaQueue, slotCalls>>]_vars
    /\ [][(callable # NoCallable /\ target_released)
             => target' = "collected"]_vars
    /\ []((callable # NoCallable /\ target # "collected"
              /\ pc[Owner] = Idle) => ENABLED target_released)

\* The part of C15 that holds: the same for a target whose Python object
\* is gone, so that the weak reference of the callable is dead.
C15_CollectedTargetNoOp ==
    /\ [][\A t \in Threads : \A args \in InvokeArgs :
             (target = "collected" /\ call(t, args))
               => /\ ret' = Ret(t, "call", "False", None)
                  /\ UNCHANGED <<pc, target, metaQueue, slotCalls>>]_vars
    /\ []((callable # NoCallable /\ target # "collected"
              /\ pc[Owner] = Idle) => ENABLED target_released)

\* The registrations the manager has made.
RegIds == 1..Len(wm_regs)

\* How often the manager has emitted signal name with the widget built for
\* registration f.
SignalsFor(f, name) ==
    Cardinality({i \in 1..Len(wm_signals) :
                    /\ wm_signals[i].signal = name
                    /\ wm_regs[f].widget # 0
                    /\ wm_signals[i].widget = wm_regs[f].widget})

\* What __materialize changes.
materializedVars ==
    <<wm_initstate_for_node, wm_widget_for_node, wm_node_for_widget,
      wm_widgets, wm_futures, wm_regs, wm_signals, wm_observed>>

\* C19: widget_for_node on a node whose state is Delayed, when
\* create_widget_instance returns, builds the one widget of the
\* registration, leaves the node Materialized with it, sets it as the
\* result of the registration's future, emits widget_for_node_added once
\* and returns it; no registration is ever built or announced twice; and
\* the WidgetInitEvent of a registration that is already built changes
\* nothing when it is delivered.
C19_GetMaterializesOnce ==
    /\ [][\A n \in Nodes :
             (wm_initstate_for_node[n].kind = "Delayed"
                 /\ widget_for_node(n, TRUE))
               => LET f == wm_initstate_for_node[n].future
                      w == wm_regs'[f].widget
                  IN
                  /\ wm_regs[f].built = 0
                  /\ wm_regs'[f].built = 1
                  /\ w # 0
                  /\ wm_initstate_for_node'[n] = Materialized(n, w)
                  /\ wm_futures'[f].state = FINISHED
                  /\ wm_futures'[f].result = WidgetValue(w)
                  /\ wm_signals' =
                        Append(wm_signals, Signal("added", n, w))
                  /\ ret' = Ret(Owner, "widget_for_node", WidgetValue(w),
                                None)]_vars
    /\ [](\A f \in RegIds :
             wm_regs[f].built <= 1 /\ SignalsFor(f, "added") <= 1)
    /\ [][\A ok \in BOOLEAN :
             (wm_events # <<>> /\ WidgetManager_customEvent(ok)
                 /\ wm_regs[Head(wm_events).future].built > 0)
               => UNCHANGED materializedVars]_vars

\* The only registration was built by widget_for_node while its
\* WidgetInitEvent was posted and not yet delivered.
C19_Witness ==
    /\ Len(wm_regs) = 1
    /\ wm_regs[1].built = 1
    /\ wm_events = <<WidgetInitEvent(Delayed(wm_regs[1].node, 1))>>
    /\ ret = Ret(Owner, "widget_for_node", WidgetValue(wm_regs[1].widget),
                 None)
    /\ Len(wm_signals) = 1

LookedUp(n, w) ==
    /\ wm_widget_for_node[n] = w
    /\ w \in 1..Len(wm_node_for_widget)
    /\ wm_node_for_widget[w] = n
    /\ \E i \in 1..Len(wm_widgets) : wm_widgets[i] = w

C22_RegisterBuildsOnlyIfNotDelayed ==
    [][\A n \in Nodes :
          LET f == Len(wm_futures) + 1 IN
          /\ (wm_delayed_init /\ \E ok \in BOOLEAN : add_widget_for_node(n, ok))
                => /\ wm_initstate_for_node' =
                         [wm_initstate_for_node EXCEPT ![n] = Delayed(n, f)]
                   /\ wm_futures' = Append(wm_futures, NewFuture)
                   /\ wm_futures'[f].state = PENDING
                   /\ wm_regs' = Append(wm_regs, Registration(n))
                   /\ wm_timers' =
                         Append(wm_timers, WidgetInitEvent(Delayed(n, f)))
                   /\ UNCHANGED <<wm_widgets, wm_widget_for_node,
                                  wm_node_for_widget, wm_signals, wm_events,
                                  wm_deleted>>
          /\ (~wm_delayed_init /\ add_widget_for_node(n, TRUE))
                => LET w == wm_regs'[f].widget IN
                   /\ w # 0
                   /\ \A i \in 1..Len(wm_widgets) : wm_widgets[i] # w
                   /\ wm_regs'[f].built = 1
                   /\ wm_initstate_for_node' =
                         [wm_initstate_for_node EXCEPT
                             ![n] = Materialized(n, w)]
                   /\ wm_widget_for_node'[n] = w
                   /\ Len(wm_node_for_widget') >= w
                   /\ wm_node_for_widget'[w] = n
                   /\ wm_widgets' = Append(wm_widgets, w)
                   /\ wm_futures'[f].state = FINISHED
                   /\ wm_futures'[f].result = WidgetValue(w)
                   /\ wm_signals' =
                         Append(wm_signals, Signal("added", n, w))
                   /\ UNCHANGED <<wm_timers, wm_events>>]_vars

\* With __delayed_init not set, the second registration of a node was
\* built inside add_widget_for_node, after the first was removed.
C22_Witness ==
    /\ ~wm_delayed_init
    /\ Len(wm_regs) = 2
    /\ wm_regs[1].node = wm_regs[2].node
    /\ wm_regs[2].built = 1
    /\ ret = Ret(Owner, "add_widget_for_node", None, None)
    /\ wm_initstate_for_node[wm_regs[2].node]
          = Materialized(wm_regs[2].node, wm_regs[2].widget)
    /\ wm_timers = <<>>
    /\ wm_events = <<>>

\* With __delayed_init set, a node was registered and nothing was built.
C22_WitnessDelayed ==
    /\ wm_delayed_init
    /\ Len(wm_regs) = 1
    /\ wm_regs[1].built = 0
    /\ ret = Ret(Owner, "add_widget_for_node", None, None)
    /\ Len(wm_timers) = 1
    /\ wm_signals = <<>>

\* C23: remove_widget_for_node on a Materialized node emits
\* widget_for_node_removed while the node is still Materialized and
\* deleteLater has not been called on its widget, then calls deleteLater
\* (which returns at once) while the node is still Materialized, then
\* discards the node's state and lookup entry; widget_for_node on a node
\* without state raises KeyError and changes nothing.
C23_RemoveMaterializedInOrder ==
    /\ [][\A n \in Nodes :
             (wm_initstate_for_node[n].kind = "Materialized"
                 /\ remove_widget_for_node(n))
               => LET w == wm_initstate_for_node[n].widget
                      k == Len(wm_observed)
                  IN
                  /\ wm_signals' =
                        Append(wm_signals, Signal("removed", n, w))
                  /\ Len(wm_observed') = k + 2
                  /\ wm_observed'[k + 1] =
                        [call |-> "removed", node |-> n, widget |-> w,
                         state |-> "Materialized", deleted |-> FALSE]
                  /\ wm_observed'[k + 2] =
                        [call |-> "deleteLater", node |-> n, widget |-> w,
                         state |-> "Materialized", deleted |-> FALSE]
                  /\ w \in wm_deleted'
                  /\ wm_initstate_for_node'[n] = NoState
                  /\ wm_widget_for_node'[n] = 0
                  /\ \A i \in 1..Len(wm_widgets') : wm_widgets'[i] # w
                  /\ pc' = pc
                  /\ ret' = Ret(Owner, "remove_widget_for_node", None,
                                None)]_vars
    /\ [][\A n \in Nodes : \A ok \in BOOLEAN :
             (wm_initstate_for_node[n].kind = "none"
                 /\ widget_for_node(n, ok))
               => /\ ret' = Ret(Owner, "widget_for_node", "KeyError", None)
                  /\ UNCHANGED materializedVars]_vars
    /\ [](\A i \in 1..Len(wm_observed) :
             wm_observed[i].call = "removed"
               => /\ wm_observed[i].state = "Materialized"
                  /\ ~wm_observed[i].deleted
                  /\ i < Len(wm_observed)
                  /\ wm_observed[i + 1].call = "deleteLater"
                  /\ wm_observed[i + 1].widget = wm_observed[i].widget)

\* A node was built, then removed, and widget_for_node on it has raised
\* KeyError.
C23_Witness ==
    /\ Len(wm_regs) = 1
    /\ Len(wm_observed) = 3
    /\ wm_observed[2].call = "removed"
    /\ wm_observed[2].widget \in wm_deleted
    /\ wm_initstate_for_node[wm_regs[1].node] = NoState
    /\ ret = Ret(Owner, "widget_for_node", "KeyError", None)

\* The state of a future as its users see it.
Phase(fut) ==
    IF fut.state = PENDING THEN "Pending"
    ELSE IF fut.state = RUNNING THEN "Running"
    ELSE IF cancelled(fut) THEN "Cancelled"
    ELSE "Finished"

\* One step along Pending, Running, Finished or Pending, Cancelled.
Monotonic(a, b) ==
    \/ Phase(a) = Phase(b)
    \/ <<Phase(a), Phase(b)>> \in {<<"Pending", "Running">>,
                                   <<"Running", "Finished">>,
                                   <<"Pending", "Cancelled">>}

\* C24: every change of the state of a future, of the executor's and the
\* module's submit or of the widget manager, is a step from Pending to
\* Running, from Running to Finished or from Pending to Cancelled, and a
\* result or an exception is only set on a future that is Running.
C24_MonotonicStates ==
    [][/\ \A f \in FutureIds :
             /\ Monotonic(futures[f], futures'[f])
             /\ <<futures'[f].result, futures'[f].exception>>
                    # <<futures[f].result, futures[f].exception>>
                  => futures[f].state = RUNNING
       /\ \A f \in RegIds :
             /\ Monotonic(wm_futures[f], wm_futures'[f])
             /\ <<wm_futures'[f].result, wm_futures'[f].exception>>
                    # <<wm_futures[f].result, wm_futures[f].exception>>
                  => wm_futures[f].state = RUNNING]_vars

\* The part of C24 that holds: the same for the futures of the executor's
\* and the module's submit alone.
C24_SubmittedMonotonic ==
    [][\A f \in FutureIds :
          /\ Monotonic(futures[f], futures'[f])
          /\ <<futures'[f].result, futures'[f].exception>>
                 # <<futures[f].result, futures[f].exception>>
               => futures[f].state = RUNNING]_vars

\* A future holds a result and no exception, an exception and no result,
\* or neither.
Payload(fut) ==
    IF fut.result # None /\ fut.exception = None THEN "result"
    ELSE IF fut.result = None /\ fut.exception # None THEN "error"
    ELSE IF fut.result = None /\ fut.exception = None THEN "neither"
    ELSE "both"

\* A terminal future is left as it is, and holds what its state allows.
Immutable(fut, next) ==
    done(fut) => /\ Phase(next) = Phase(fut)
                 /\ next.result = fut.result
                 /\ next.exception = fut.exception

Settled(fut) ==
    /\ fut.state = FINISHED => Payload(fut) \in {"result", "error"}
    /\ cancelled(fut) => Payload(fut) = "neither"
    /\ ~done(fut) => Payload(fut) = "neither"

\* C25: no step changes the state (finished or cancelled), the result or
\* the exception of a future that is terminal, whether it is a cancel, a
\* pool thread picking its task up, the delivery of a stale WidgetInitEvent
\* or a shutdown; a finished future holds a result or an exception and not
\* both, a cancelled one holds neither.
C25_TerminalImmutable ==
    /\ [][(\A f \in FutureIds : Immutable(futures[f], futures'[f]))
           /\ (\A f \in RegIds :
                  Immutable(wm_futures[f], wm_futures'[f]))]_vars
    /\ []((\A f \in FutureIds : Settled(futures[f]))
           /\ (\A f \in RegIds : Settled(wm_futures[f])))

\* After a shutdown, cancel() was called on a finished future and returned
\* False; a pool thread has picked the task of the other, cancelled future
\* up.
C25_Witness ==
    /\ shutdownFlag
    /\ ret.op = "cancel" /\ ret.value = "False" /\ ret.pre = FINISHED
    /\ \E f, g \in FutureIds :
          /\ futures[f].state = FINISHED
          /\ futures[g].state = CANCELLED_AND_NOTIFIED

\* A node was built by widget_for_node and removed, and its stale
\* WidgetInitEvent was then delivered.
C25_WitnessStaleEvent ==
    /\ Len(wm_regs) = 1
    /\ wm_futures[1].state = FINISHED
    /\ wm_signals = <<Signal("added", wm_regs[1].node, wm_regs[1].widget),
                      Signal("removed", wm_regs[1].node, wm_regs[1].widget)>>
    /\ wm_timers = <<>>
    /\ wm_events = <<>>

\* The done-callbacks _invoke_callbacks has called on future f, in order.
CalledCallbacks(f) == [i \in 1..Len(called[f]) |-> called[f][i].cb]

IsPrefix(a, b) == Len(a) <= Len(b) /\ a = SubSeq(b, 1, Len(a))

\* C26: the done-callbacks of a future are registered in the order of the
\* calls that add them, notify_done of the executor first, and only while
\* the future is not terminal; none is registered twice; they are called
\* in that order, each once, each finding the future done; and all have
\* been called when _invoke_callbacks has returned.
C26_CallbacksInOrderOnce ==
    /\ [][\A f \in FutureIds :
             \/ futures'[f].callbacks = futures[f].callbacks
             \/ /\ ~done(futures[f])
                /\ \E w \in DOMAIN watched :
                      /\ setFuture(Owner, w, f)
                      /\ futures'[f].callbacks =
                            Append(futures[f].callbacks, OnDone(w))]_vars
    /\ [](\A f \in FutureIds :
             LET cbs == futures[f].callbacks IN
             /\ \A i, j \in 1..Len(cbs) : cbs[i] = cbs[j] => i = j
             /\ (ViaExecutor(f) /\ track)
                   => cbs # <<>> /\ cbs[1] = NotifyDone
             /\ \A i \in 2..Len(cbs) : cbs[i] # NotifyDone
             /\ IsPrefix(CalledCallbacks(f), cbs)
             /\ \A i \in 1..Len(called[f]) : called[f][i].done
             /\ ~done(futures[f]) => called[f] = <<>>
             /\ (done(futures[f]) /\ CallbacksFinished(f))
                   => CalledCallbacks(f) = cbs)

\* Two watchers were attached, the second before the first, to a pending
\* future the executor tracks; a pool thread has finished the future and
\* called the three callbacks.
C26_Witness ==
    \E f \in FutureIds :
        /\ futures[f].state = FINISHED
        /\ futures[f].callbacks = <<NotifyDone, OnDone(2), OnDone(1)>>
        /\ CalledCallbacks(f) = futures[f].callbacks
        /\ CallbacksFinished(f)

\* C27: the owner's loop delivers the FutureDone events in the order in
\* which on_done posted them, whichever threads posted them: the receivers
\* of the events delivered are the first of those posted, in order, and the
\* rest are the events still posted. A watcher emits only when its event
\* is delivered, and then its whole group, while no other watcher emits.
C27_DispatchedInPostedOrder ==
    /\ [](/\ IsPrefix(dispatched, posted)
           /\ evQueue = SubSeq(posted, Len(dispatched) + 1, Len(posted))
           /\ \A w \in DOMAIN watched :
                 emitted[w] # <<>>
                    <=> \E i \in 1..Len(dispatched) : dispatched[i] = w)
    /\ [][\A w \in DOMAIN watched :
             emitted'[w] # emitted[w]
               => /\ dispatched' = Append(dispatched, w)
                  /\ emitted'[w] =
                        emitted[w] \o emitSignals(watched[w],
                                                  futures[watched[w]], Owner)
                  /\ \A v \in DOMAIN watched \ {w} :
                        emitted'[v] = emitted[v]]_vars

\* A pool thread has finished the first future and the other client has
\* cancelled the second, each with its watcher; the event of the second
\* watcher was posted and delivered first, and both have emitted.
C27_Witness ==
    /\ Len(futures) = 2
    /\ watched = <<1, 2>>
    /\ futures[1].state = FINISHED
    /\ cancelled(futures[2])
    /\ ret = Ret(Client, "cancel", "True", PENDING)
    /\ posted = <<2, 1>>
    /\ dispatched = <<2, 1>>
    /\ Signals(emitted[2]) = <<(<<"cancelled", None>>), (<<"done", None>>)>>
    /\ Len(emitted[1]) = 3

\* Thread t is about to call notify_done, which takes the executor's lock.
AtNotifyDone(t) ==
    /\ pc[t] = "callbacks"
    /\ futures[cur[t].future].callbacks[idx[t]] = NotifyDone

\* C28: the executor's lock is only held by a thread inside submit, which
\* can always go on and release it, so the lock is free again and again; a
\* thread that runs done-callbacks, notify_done among them, gets through
\* them; a thread in the wait of shutdown(wait=True) does not hold the lock;
\* and the wait returns, the tasks and the pool's threads being what they
\* are in the model: every callable terminates and every task is picked up.
C28_LockNeverDeadlocks ==
    /\ [](lock # Unlocked
             => /\ lock \in Clients
                /\ pc[lock] = "submit_return"
                /\ ENABLED submit_return(lock))
    /\ [](\A t \in Clients : pc[t] = "shutdown_wait" => lock # t)
    /\ (lock # Unlocked) ~> (lock = Unlocked)
    /\ \A t \in Threads : (pc[t] = "callbacks") ~> (pc[t] = Idle)
    /\ \A t \in Clients :
          (pc[t] = "shutdown_wait")
             ~> (pc[t] = Idle /\ \A f \in FutureIds :
                                    ViaExecutor(f) /\ track
                                       => done(futures[f]))

\* A pool thread that has finished a task is about to call notify_done
\* while the other client is inside submit and holds the lock.
C28_Witness ==
    /\ lock = Client
    /\ \E w \in Workers :
          /\ AtNotifyDone(w)
          /\ futures[cur[w].future].state = FINISHED
          /\ ~ENABLED invoke_callbacks(w)

\* The futures submitted through the executor.
Tracked == {f \in FutureIds : ViaExecutor(f)}

\* C29: with tracking, a future is in the pending set from the step of
\* submit that hands its task to the pool until notify_done removes it, so
\* as long as it is not terminal; notify_done always finds the future it
\* removes in the set, and a future that has left the set never is in it
\* again; the set only holds futures of this executor's submit (none
\* without tracking); and it is empty when all of them are terminal and
\* their callbacks have run.
C29_PendingSetBookkeeping ==
    /\ [][\A f \in 1..MaxFutures :
             (f \notin FutureIds /\ f \in FutureIds'
                 /\ track /\ submitted'[f].via = "executor")
               => /\ f \in pending'
                  /\ poolQueue' = Append(poolQueue,
                                         Task(f, submitted'[f].func))]_vars
    /\ [](\A i \in 1..Len(poolQueue) :
             LET f == poolQueue[i].future IN
             (track /\ ViaExecutor(f) /\ ~done(futures[f]))
                => f \in pending)
    /\ [](track => \A f \in Tracked : ~done(futures[f]) => f \in pending)
    /\ [][\A t \in Threads :
             (AtNotifyDone(t) /\ invoke_callbacks(t))
               => /\ cur[t].future \in pending
                  /\ pending' = pending \ {cur[t].future}]_vars
    /\ [][\A f \in FutureIds : f \notin pending => f \notin pending']_vars
    /\ [](pending \subseteq Tracked /\ (~track => pending = {}))
    /\ []((\A f \in Tracked : done(futures[f]) /\ CallbacksFinished(f))
             => pending = {})

\* With tracking, two futures of the executor, one finished and one
\* cancelled, have left the pending set.
C29_Witness ==
    /\ track
    /\ pending = {}
    /\ Cardinality(Tracked) = 2
    /\ \E f, g \in Tracked :
          /\ futures[f].state = FINISHED
          /\ cancelled(futures[g])
    /\ \A f \in Tracked :
          CallbacksFinished(f) /\ CalledCallbacks(f) = futures[f].callbacks

\* notify_done has been called for future f.
Notified(f) ==
    \E i \in 1..Len(called[f]) : called[f][i].cb = NotifyDone

\* C30 as claimed: when shutdown(wait=True) returns on a tracking executor
\* the pending set is empty.
C30_EmptyAtReturn ==
    [][\A t \in Clients :
          (track /\ shutdown_wait(t)) => pending' = {}]_vars

\* C30, amended: when shutdown(wait=True) returns on a tracking executor,
\* every future of the pending set is terminal, and is in the set only
\* because the thread that completed or cancelled it has not called its
\* notify_done yet; after a shutdown the set only shrinks, and it is empty
\* once these threads have run the callbacks, and for ever after.
C30_TerminalAtReturn ==
    /\ [][\A t \in Clients :
             (track /\ shutdown_wait(t))
               => \A f \in pending' :
                     /\ done(futures'[f])
                     /\ ~Notified(f)
                     /\ \E u \in Threads :
                           /\ pc[u] = "callbacks"
                           /\ cur[u].future = f]_vars
    /\ [][shutdownFlag => pending' \subseteq pending]_vars
    /\ shutdownFlag ~> [](pending = {})

\* shutdown(wait=True) has returned on a tracking executor while the pool
\* thread that finished the last task has not called notify_done yet.
C30_Witness ==
    /\ track
    /\ ret.op = "shutdown_wait"
    /\ pending # {}
    /\ \A f \in pending : futures[f].state = FINISHED /\ ~Notified(f)
    /\ \E w \in Workers : AtNotifyDone(w) /\ cur[w].future \in pending

\* C31: shutdown, with wait true or false, cancels nothing: it leaves the
\* futures and the tasks handed to the pool as they are; a future becomes
\* cancelled only by a caller's cancel; and once the flag is set every
\* future that was accepted eventually is cancelled, or is finished with
\* its callable called exactly once.
C31_ShutdownCancelsNothing ==
    /\ [][\A t \in Clients, wait \in BOOLEAN :
             shutdown(t, wait)
               => UNCHANGED <<futures, poolQueue, invoked, cur>>]_vars
    /\ [][\A f \in FutureIds :
             (~cancelled(futures[f]) /\ cancelled(futures'[f]))
               => \E t \in Clients : cancel_call(t, f)]_vars
    /\ \A f \in 1..MaxFutures :
          (f \in FutureIds /\ shutdownFlag)
            ~> (/\ f \in FutureIds
                /\ \/ cancelled(futures[f])
                   \/ futures[f].state = FINISHED /\ invoked[f] = 1)

\* shutdown(wait=False) has returned while a pool thread is running one
\* task and another is still with the pool, its future pending.
C31_Witness ==
    /\ shutdownFlag
    /\ ret = Ret(Client, "shutdown", None, None)
    /\ \E w \in Workers : pc[w] = "run_call"
    /\ poolQueue # <<>>
    /\ futures[Head(poolQueue).future].state = PENDING

\* How often the task of future f is with the pool, not yet started.
Queued(f) ==
    Cardinality({i \in 1..Len(poolQueue) : poolQueue[i].future = f})

\* Whether a pool thread is about to call the callable of future f.
Running(f) ==
    Cardinality({w \in Workers : pc[w] = "run_call" /\ cur[w].future = f})

\* C32: the callable of a submitted task is called at most once. As long
\* as its future is not cancelled the task is with the pool, or being run,
\* or has been run once, and exactly one of the three; the task of a
\* cancelled future is not called and was not; a pool thread that picks a
\* task up goes on to call it exactly when the future is pending then;
\* and the count of calls only changes by one, in the thread's call.
C32_CalledAtMostOnce ==
    /\ [](\A f \in FutureIds :
             /\ invoked[f] <= 1
             /\ Queued(f) <= 1
             /\ ~cancelled(futures[f])
                  => Queued(f) + Running(f) + invoked[f] = 1
             /\ cancelled(futures[f]) => Running(f) + invoked[f] = 0)
    /\ [][\A w \in Workers, f \in FutureIds :
             (/\ poolQueue # <<>>
              /\ Head(poolQueue).future = f
              /\ FutureRunnable_run(w))
               => /\ Queued(f)' = 0
                  /\ Running(f)' = 1 <=> futures[f].state = PENDING]_vars
    /\ [][\A f \in FutureIds :
             invoked'[f] # invoked[f]
               => /\ invoked'[f] = invoked[f] + 1
                  /\ \E w \in Workers :
                        cur[w].future = f /\ FutureRunnable_call(w)]_vars

\* After a shutdown the pool has run out of tasks: the callable of one
\* future was called once, that of the other, cancelled while its task was
\* with the pool, not at all.
C32_Witness ==
    /\ shutdownFlag
    /\ poolQueue = <<>>
    /\ \A w \in Workers : pc[w] = Idle
    /\ \E f, g \in FutureIds :
          /\ futures[f].state = FINISHED /\ invoked[f] = 1
          /\ futures[g].state = CANCELLED_AND_NOTIFIED /\ invoked[g] = 0

\* C33: whenever the owner's loop delivers a FutureDone event, its watcher
\* has a future set and that future is done: neither assert of
\* __emitSignals ever fails, every event that is posted is one for a
\* watcher with a done future, and its delivery emits that future's
\* signals.
C33_AssertionsNeverFail ==
    /\ [](~assertFailed)
    /\ [](\A i \in 1..Len(evQueue) :
             /\ watched[evQueue[i]] # 0
             /\ done(futures[watched[evQueue[i]]]))
    /\ [][(evQueue # <<>> /\ customEvent)
             => LET w == Head(evQueue) IN
                /\ watched[w] # 0
                /\ done(futures[watched[w]])
                /\ emitted'[w] =
                      emitted[w] \o
                          emitSignals(watched[w], futures[watched[w]],
                                      Owner)]_vars

\* A watcher was given a pending future, whose task a pool thread has run
\* since; the loop has delivered the one event and the signals of a
\* finished future were emitted.
C33_Witness ==
    /\ ret = Ret(Owner, "setFuture", None, PENDING)
    /\ dispatched # <<>>
    /\ evQueue = <<>>
    /\ ~assertFailed
    /\ \E w \in Watchers :
          /\ watched[w] # 0
          /\ futures[watched[w]].state = FINISHED
          /\ Len(emitted[w]) = 3

\* The registration whose widget is w.
BuiltAs(f, n, w) ==
    /\ wm_regs[f].node = n
    /\ wm_regs[f].widget = w

\* C34: after any sequence of registrations, requests, removals, closes
\* and delivered events, a node whose state is Delayed has a pending
\* future; a node whose state is Materialized has a widget that was built
\* for one registration of that node, whose future is finished with that
\* widget as result; and a future is cancelled only in the step that
\* discards the Delayed state holding it, so that a cancelled future
\* belongs to a registration that was never built and that no node holds.
C34_StateMatchesFuture ==
    /\ [](\A n \in Nodes :
             LET state == wm_initstate_for_node[n] IN
             /\ state.kind = "Delayed"
                  => /\ state.future \in RegIds
                     /\ wm_regs[state.future].node = n
                     /\ wm_futures[state.future].state = PENDING
             /\ state.kind = "Materialized"
                  => /\ Cardinality({f \in RegIds :
                                        BuiltAs(f, n, state.widget)}) = 1
                     /\ \A f \in RegIds :
                           BuiltAs(f, n, state.widget)
                             => /\ wm_futures[f].state = FINISHED
                                /\ wm_futures[f].exception = None
                                /\ wm_futures[f].result =
                                      WidgetValue(state.widget))
    /\ [][\A f \in RegIds :
             (~cancelled(wm_futures[f]) /\ cancelled(wm_futures'[f]))
               => LET n == wm_regs[f].node IN
                  /\ wm_initstate_for_node[n] = Delayed(n, f)
                  /\ wm_initstate_for_node'[n] = NoState]_vars
    /\ [](\A f \in RegIds :
             cancelled(wm_futures[f])
               => /\ wm_regs[f].built = 0
                  /\ \A n \in Nodes :
                        wm_initstate_for_node[n].future # f)

\* A manager installed on a scheme holds the cancelled future of a
\* registration that was discarded while Delayed, a node whose widget was
\* asked for and a node that is still Delayed.
C34_Witness ==
    /\ wm_scheme = TheScheme
    /\ \E f \in RegIds : cancelled(wm_futures[f])
    /\ \E n \in Nodes : wm_initstate_for_node[n].kind = "Materialized"
    /\ \E n \in Nodes : wm_initstate_for_node[n].kind = "Delayed"
    /\ ret.op = "widget_for_node"

\* The widgets __node_for_widget has an entry for.
WidgetIds == 1..Len(wm_node_for_widget)

\* C35: the two lookups agree and hold nothing for a node that is not
\* registered: __node_for_widget maps widget w to node n exactly when
\* __widget_for_node maps n to w, and a node without a state has an entry
\* in neither.
C35_LookupsConsistent ==
    /\ \A n \in Nodes, w \in WidgetIds :
          wm_node_for_widget[w] = n <=> wm_widget_for_node[n] = w
    /\ \A n \in Nodes :
          wm_initstate_for_node[n].kind = "none"
            => /\ wm_widget_for_node[n] = 0
               /\ \A w \in WidgetIds : wm_node_for_widget[w] # n

\* The part of C35 that holds: what __widget_for_node maps a node to,
\* __node_for_widget maps back to the node, and __widget_for_node has an
\* entry exactly for the nodes whose state is Materialized.
C35_WidgetForNodeConsistent ==
    \A n \in Nodes :
        /\ wm_widget_for_node[n] # 0
              => LookedUp(n, wm_widget_for_node[n])
        /\ wm_widget_for_node[n] # 0
              <=> wm_initstate_for_node[n].kind = "Materialized"
        /\ wm_initstate_for_node[n].kind = "Materialized"
              => wm_widget_for_node[n] = wm_initstate_for_node[n].widget

\* A node was registered, its widget was built and the node was removed:
\* __node_for_widget still has the widget.
C35_StaleEntry ==
    /\ ret = Ret(Owner, "remove_widget_for_node", None, None)
    /\ \E w \in WidgetIds :
          /\ wm_initstate_for_node[wm_node_for_widget[w]].kind = "none"
          /\ wm_widget_for_node[wm_node_for_widget[w]] = 0

\* The event delivered next is a stale one: the registration it was made
\* for is no longer the one its node has.
StaleEvent ==
    /\ wm_events # <<>>
    /\ wm_initstate_for_node[Head(wm_events).node]
          # Delayed(Head(wm_events).node, Head(wm_events).future)

\* C36: the WidgetInitEvent of a registration that was removed is a no-op
\* when it is delivered, also when its node has been registered again in
\* the meantime: its own future is cancelled or done, and the delivery
\* builds nothing, cancels nothing and leaves the node's new state, its
\* future and the lookups as they are. A registration is built at most
\* once, and only by widget_for_node on its node while that registration
\* is the node's state, or by the delivery of its own event.
C36_StaleEventNoOp ==
    /\ [][\A ok \in BOOLEAN :
             (StaleEvent /\ WidgetManager_customEvent(ok))
               => /\ done(wm_futures[Head(wm_events).future])
                  /\ UNCHANGED materializedVars
                  /\ UNCHANGED <<wm_timers, wm_deleted>>]_vars
    /\ [](\A f \in RegIds : wm_regs[f].built <= 1)
    /\ [][\A f \in RegIds :
             wm_regs'[f].built # wm_regs[f].built
               => LET n == wm_regs[f].node IN
                  /\ wm_initstate_for_node[n] = Delayed(n, f)
                  /\ \/ widget_for_node(n, TRUE)
                     \/ /\ wm_events # <<>>
                        /\ Head(wm_events).future = f
                        /\ WidgetManager_customEvent(TRUE)]_vars

\* A node was registered, removed while Delayed and registered again;
\* the events of both registrations have been delivered since the first
\* was removed, and no build has failed: the second registration was
\* built, by its own event, the first was not.
C36_Witness ==
    /\ Len(wm_regs) = 2
    /\ wm_regs[1].node = wm_regs[2].node
    /\ wm_futures[1].state = CANCELLED
    /\ wm_regs[1].built = 0
    /\ wm_regs[1].failed = 0
    /\ wm_regs[2].built = 1
    /\ wm_regs[2].failed = 0
    /\ wm_timers = <<>>
    /\ wm_events = <<>>
    /\ ret.op = "add_widget_for_node"

\* The places in wm_signals where signal name was emitted with widget w.
Emitted(name, w) ==
    {i \in 1..Len(wm_signals) :
        wm_signals[i].signal = name /\ wm_signals[i].widget = w}

\* Every widget_for_node_removed follows the one widget_for_node_added of
\* the same registration, with the same node; no registration is removed
\* or added twice.
NotificationsPaired ==
    /\ \A i \in 1..Len(wm_signals) :
          wm_signals[i].signal = "removed"
            => /\ Cardinality(Emitted("added", wm_signals[i].widget)) = 1
               /\ Cardinality(Emitted("removed", wm_signals[i].widget)) = 1
               /\ \A j \in Emitted("added", wm_signals[i].widget) :
                     j < i /\ wm_signals[j].node = wm_signals[i].node
    /\ \A f \in RegIds :
          /\ SignalsFor(f, "added") <= 1
          /\ SignalsFor(f, "removed") <= 1
          /\ SignalsFor(f, "added") = wm_regs[f].built

\* C37 as claimed: the notifications are paired, and
\* create_widget_instance is called at most once for a registration.
C37_OneBuildInvocation ==
    /\ NotificationsPaired
    /\ \A f \in RegIds : wm_regs[f].built + wm_regs[f].failed <= 1

\* C37: the notifications are paired, and create_widget_instance returns
\* a widget at most once for a registration; the calls that raised come
\* before it, while the registration was Delayed, and each was made by
\* widget_for_node or by the delivery of the registration's event.
C37_OneBuildReturned ==
    /\ [](NotificationsPaired)
    /\ [](\A f \in RegIds : wm_regs[f].built <= 1)
    /\ [][\A f \in RegIds :
             wm_regs'[f].failed # wm_regs[f].failed
               => /\ wm_regs'[f].failed = wm_regs[f].failed + 1
                  /\ wm_regs[f].built = 0
                  /\ wm_initstate_for_node[wm_regs[f].node]
                        = Delayed(wm_regs[f].node, f)
                  /\ UNCHANGED <<wm_signals, wm_futures,
                                 wm_initstate_for_node>>]_vars

\* create_widget_instance raised for a registration and returned a widget
\* when it was called for it again; the widget was announced, and
\* removed when the manager was closed.
C37_Witness ==
    /\ ret = Ret(Owner, "close", None, None)
    /\ \E f \in RegIds :
          /\ wm_regs[f].failed = 1
          /\ wm_regs[f].built = 1
          /\ SignalsFor(f, "added") = 1
          /\ SignalsFor(f, "removed") = 1

\* A call of create_widget_instance for registration f raises in this step.
BuildFails(f) == wm_regs'[f].failed # wm_regs[f].failed

\* C38: when create_widget_instance raises, in widget_for_node or in the
\* delivery of a WidgetInitEvent, the manager is left as it was: the node
\* is still Delayed with the same pending future, the lookups, the list of
\* widgets and the signals emitted are unchanged, and widget_for_node
\* passes the error on; and a Delayed node is materialized by the next
\* widget_for_node whose create_widget_instance returns, however often
\* the build has failed before.
C38_FailedBuildChangesNothing ==
    /\ [][\A f \in RegIds :
             BuildFails(f)
               => LET n == wm_regs[f].node IN
                  /\ wm_initstate_for_node[n] = Delayed(n, f)
                  /\ wm_futures[f].state = PENDING
                  /\ UNCHANGED <<wm_initstate_for_node, wm_futures,
                                 wm_widget_for_node, wm_node_for_widget,
                                 wm_widgets, wm_signals, wm_observed,
                                 wm_deleted>>
                  /\ wm_regs'[f].built = 0
                  /\ \/ ret' = Ret(Owner, "widget_for_node", "BuildError",
                                    None)
                     \/ /\ wm_events # <<>>
                        /\ Head(wm_events).future = f
                        /\ wm_events' = Tail(wm_events)]_vars
    /\ [](\A n \in Nodes :
             (wm_initstate_for_node[n].kind = "Delayed" /\ pc[Owner] = Idle)
               => ENABLED (/\ widget_for_node(n, TRUE)
                           /\ UNCHANGED schemeVars
                           /\ wm_initstate_for_node'[n].kind
                                 = "Materialized"))

\* widget_for_node has just passed on the error of create_widget_instance:
\* the node is Delayed, its future pending, and nothing was built or
\* announced.
C38_Witness ==
    /\ ret = Ret(Owner, "widget_for_node", "BuildError", None)
    /\ Len(wm_regs) = 1
    /\ wm_regs[1].failed = 1
    /\ wm_initstate_for_node[wm_regs[1].node] = Delayed(wm_regs[1].node, 1)
    /\ wm_futures[1].state = PENDING
    /\ wm_widgets = <<>>
    /\ wm_signals = <<>>

\* The nodes of the scheme.
SchemeNodes == {scheme_nodes[i] : i \in 1..Len(scheme_nodes)}

\* What close and the delivery of an event may change of the manager,
\* but for the events posted.
closedVars ==
    <<wm_initstate_for_node, wm_widget_for_node, wm_node_for_widget,
      wm_widgets, wm_futures, wm_regs, wm_signals, wm_observed, wm_deleted,
      wm_timers, wm_scheme>>

\* C39: close() on a manager installed on a scheme returns with no state
\* left for any node: the future of every node that was Delayed is
\* cancelled, widget_for_node_removed was emitted once, and only then,
\* for the widget of every node that was Materialized, and the manager is
\* no longer installed. A manager that is not installed holds no state,
\* the WidgetInitEvents delivered to it change nothing, and close() on it
\* changes nothing.
C39_CloseRemovesAll ==
    /\ [][(wm_scheme = TheScheme /\ close)
             => /\ ret' = Ret(Owner, "close", None, None)
                /\ wm_scheme' = NoScheme
                /\ \A n \in Nodes : wm_initstate_for_node'[n] = NoState
                /\ \A n \in Nodes : wm_widget_for_node'[n] = 0
                /\ wm_widgets' = <<>>
                /\ \A n \in SchemeNodes :
                      wm_initstate_for_node[n].kind # "none"
                /\ \A n \in Nodes, f \in RegIds :
                      wm_initstate_for_node[n] = Delayed(n, f)
                        => /\ wm_futures'[f].state = CANCELLED
                           /\ wm_regs'[f].built = 0
                /\ \A n \in Nodes, w \in WidgetIds :
                      wm_initstate_for_node[n] = Materialized(n, w)
                        => /\ Emitted("removed", w) = {}
                           /\ Cardinality(Emitted("removed", w)') = 1
                           /\ w \in wm_deleted']_vars
    /\ [](wm_scheme = NoScheme
            => \A n \in Nodes : wm_initstate_for_node[n] = NoState)
    /\ [][\A ok \in BOOLEAN :
             (wm_scheme = NoScheme /\ WidgetManager_customEvent(ok))
               => UNCHANGED closedVars]_vars
    /\ [][(wm_scheme = NoScheme /\ close)
             => UNCHANGED <<closedVars, wm_events>>]_vars

\* A manager with a scheme of two nodes was closed when one node was
\* Delayed and the other Materialized; the events of both have been
\* delivered since the Delayed one was cancelled.
C39_Witness ==
    /\ ret = Ret(Owner, "close", None, None)
    /\ wm_scheme = NoScheme
    /\ Len(scheme_nodes) = 2
    /\ Len(wm_regs) = 2
    /\ \E f, g \in RegIds :
          /\ wm_futures[f].state = CANCELLED
          /\ wm_regs[f].failed = 0
          /\ SignalsFor(g, "removed") = 1
    /\ wm_timers = <<>>
    /\ wm_events = <<>>

====
